---- MODULE Spec2Model ----
(***************************************************************************)
(* A model of four parts of the CodeChain node:                            *)
(*   - the Tendermint vote collector                                       *)
(*       src/core/src/consensus/tendermint/vote_collector.rs               *)
(*   - the state database's shared account cache                           *)
(*       src/core/src/state_db.rs                                          *)
(*   - the extension host of the network layer                             *)
(*       src/network/src/client.rs                                         *)
(*   - the handshake engine of the network layer                           *)
(*       src/network/src/handshake/handshake.rs                            *)
(* Each part has its own specifications over its own variables; the        *)
(* variables of the other parts keep their initial values.                 *)
(***************************************************************************)
EXTENDS Integers, Sequences, FiniteSets, TLC

VARIABLES
    \* ---- vote collector ----
    votes,          \* VoteCollector.votes : BTreeMap<VoteStep, StepCollector>
    vret,           \* what the last call of vote returned (Option<DoubleVote>)
    vop,            \* the last call made on the collector and its argument
    lastBy,         \* history: per (round, signer), the last message passed to vote
    thrown,         \* history: the largest round of a successful throw_out_old
    nvotes,         \* number of vote calls made so far
    vpanic,         \* an assertion of the collector has failed (the thread panicked)
    \* ---- state database ----
    accounts,       \* AccountCache.accounts : LruCache<Address, Option<Account>>
    modifications,  \* AccountCache.modifications : VecDeque<BlockChanges>
    handle,         \* the StateDB handle building the next block (s of the tests)
    chain,          \* history: the blocks imported so far, with their true state
    best,           \* history: hash of the best block of the chain
    pc,             \* position in the scripted scenario (tests::state_db_smoke)
    rnd,            \* the random values the scripted scenario has drawn
    call,           \* history: the last journal_under or sync_cache call made on
                    \* the handle, with the handle as it was before the call
    \* ---- extension host ----
    extensions,     \* Client.extensions : the names in the registry
    toregister,     \* the extensions the program has still to register
    registering,    \* the name register_extension holds the write lock for
    client,         \* the Client is alive, being dropped, or dropped
    joining,        \* the extension whose task Extension::drop is joining
    task,           \* per extension, the position of its thread
    cur,            \* per extension, the callback its thread is executing
    rx,             \* per extension, the network channel (ExtensionMessage)
    events,         \* per extension, the events channel
    event_senders,  \* per extension, the program still holds an event sender
    event_closed,   \* per extension, the local event_closed of the loop
    quit,           \* per extension, the items of the bounded(1) quit channel
    init,           \* per extension, the items of the bounded(1) init channel
    active,         \* history: per extension, callbacks now in execution
    initialized,    \* history: per extension, invocations of on_initialize
    undelivered,    \* history: per extension, on_message calls accepted for
                    \* it minus on_message callbacks it was given
    need_encryption,     \* per extension, what its need_encryption() declares
    api_name,            \* per extension, ClientApi.name
    api_need_encryption, \* per extension, ClientApi.need_encryption
    p2p_channel,         \* the message last posted to the P2P channel
    sendcall,            \* history: the last call of ClientApi::send
    \* ---- handshake engine ----
    hs_table,       \* Handshake.table : SessionTable
    connect_queue,  \* Internal.connect_queue
    socket_in,      \* what recv_from on the UDP socket will give, in order
    hs_reading,     \* a call of stream_readable is in its loop
    hs_panic,       \* a handler of the engine has panicked
    hs_last,        \* history: what the last step emitted and sent, when it
                    \* was an iteration of a loop of the engine
    hs_denied,      \* history: per peer, a ConnectionDenied of it was handled
                    \* and the engine has not connected to it since
    hs_registered,  \* history: per peer, the RegisterSession emitted for it,
                    \* counted up to 2
    \* The response codec (sync/src/block/message/response.rs).
    rm_pc,          \* "idle", "wire" (bytes and an id wait to be decoded) or
                    \* "decoded"
    rm_msg,         \* the ResponseMessage that was encoded, if one was
    rm_id,          \* the MessageID that goes with the bytes
    rm_bytes,       \* the bytes on the wire
    rm_out          \* the Result of ResponseMessage::decode

vcvars == <<votes, vret, vop, lastBy, thrown, nvotes, vpanic>>
dbvars == <<accounts, modifications, handle, chain, best, pc, rnd, call>>
netvars == <<extensions, toregister, registering, client, joining, task, cur,
             rx, events, event_senders, event_closed, quit, init,
             active, initialized, undelivered>>
apivars == <<need_encryption, api_name, api_need_encryption, p2p_channel,
             sendcall>>
\* What the steps of one part leave alone: the variables of the other parts.
hsvars == <<hs_table, connect_queue, socket_in, hs_reading, hs_panic, hs_last,
            hs_denied, hs_registered>>
rmvars == <<rm_pc, rm_msg, rm_id, rm_bytes, rm_out>>
nonvc == <<dbvars, netvars, apivars, hsvars, rmvars>>
nondb == <<vcvars, netvars, apivars, hsvars, rmvars>>
nonhost == <<vcvars, dbvars, hsvars, rmvars>>
nonhs == <<vcvars, dbvars, netvars, apivars, rmvars>>
nonrm == <<vcvars, dbvars, netvars, apivars, hsvars>>
vars == <<votes, vret, vop, lastBy, thrown, nvotes, vpanic,
          accounts, modifications, handle, chain, best, pc, rnd, call,
          extensions, toregister, registering, client, joining, task, cur,
          rx, events, event_senders, event_closed, quit, init,
          active, initialized, undelivered,
          need_encryption, api_name, api_need_encryption, p2p_channel,
          sendcall,
          hs_table, connect_queue, socket_in, hs_reading, hs_panic, hs_last,
          hs_denied, hs_registered,
          rm_pc, rm_msg, rm_id, rm_bytes, rm_out>>

\* Option::None of an integer-valued Option (a hash, a block number, an index).
None == -1

(***************************************************************************)
(* Bounds of the vote collector model.                                     *)
(***************************************************************************)
MaxRound == 1
MaxVotes == 3

\* VoteStep values in their total order (derive(Ord)); 0 is VoteStep::default().
Rounds == 0..MaxRound
\* Validator indices.
Signers == {0, 1}
\* Option<H256> of a message: None is the nil vote.
BlockHashes == {None, 11}
Signatures == {"sigA", "sigB"}

\* ConsensusMessage: equality is by full content.
\* A signer can sign one block twice with different signatures; for the nil
\* vote one signature is enough to tell the cases apart.
Messages ==
    {m \in [round: Rounds, block_hash: BlockHashes,
            signer_index: Signers, signature: Signatures] :
        m.block_hash = None => m.signature = "sigA"}

\* StepCollector::default()
DefaultStepCollector == [voted |-> <<>>, block_votes |-> <<>>, messages |-> {}]

NoDoubleVote == [some |-> FALSE]
DoubleVote(author_index, vote_one, vote_two) ==
    [some |-> TRUE, author_index |-> author_index,
     vote_one |-> vote_one, vote_two |-> vote_two]

\* self.block_votes.entry(hash).or_default().insert(signer, signature)
BlockVotesInsert(block_votes, hash, signer, signature) ==
    LET old == IF hash \in DOMAIN block_votes THEN block_votes[hash] ELSE <<>>
    IN  (hash :> ((signer :> signature) @@ old)) @@ block_votes

\* A slip a change of insert could make: the conflicting vote is projected too.
insert_projecting_double_vote(c, message) ==
    IF message \in c.messages
    THEN [collector |-> c, ret |-> NoDoubleVote]
    ELSE LET s == message.signer_index
             c1 == [c EXCEPT !.messages = @ \cup {message},
                             !.voted = (s :> message) @@ @,
                             !.block_votes = BlockVotesInsert(@, message.block_hash,
                                                              s, message.signature)]
         IN  [collector |-> c1,
              ret |-> IF s \in DOMAIN c.voted
                      THEN DoubleVote(s, c.voted[s], message)
                      ELSE NoDoubleVote]

\* A slip a change of insert could make: the witness lists the votes in the other order.
insert_swapped_witness(c, message) ==
    IF message \in c.messages
    THEN [collector |-> c, ret |-> NoDoubleVote]
    ELSE LET s == message.signer_index
             c1 == [c EXCEPT !.messages = @ \cup {message},
                             !.voted = (s :> message) @@ @]
         IN  IF s \in DOMAIN c.voted
             THEN [collector |-> c1, ret |-> DoubleVote(s, message, c.voted[s])]
             ELSE [collector |-> [c1 EXCEPT !.block_votes =
                                     BlockVotesInsert(@, message.block_hash,
                                                      s, message.signature)],
                   ret |-> NoDoubleVote]

\* A change insert could be given: the votes of a double voter are withdrawn
\* from the block-vote projection.
insert_withdrawing_projection(c, message) ==
    IF message \in c.messages
    THEN [collector |-> c, ret |-> NoDoubleVote]
    ELSE LET s == message.signer_index
             c1 == [c EXCEPT !.messages = @ \cup {message},
                             !.voted = (s :> message) @@ @]
         IN  IF s \in DOMAIN c.voted
             THEN [collector |->
                      [c1 EXCEPT !.block_votes =
                          [h \in DOMAIN @ |->
                              [i \in DOMAIN @[h] \ {s} |-> @[h][i]]]],
                   ret |-> DoubleVote(s, c.voted[s], message)]
             ELSE [collector |-> [c1 EXCEPT !.block_votes =
                                     BlockVotesInsert(@, message.block_hash,
                                                      s, message.signature)],
                   ret |-> NoDoubleVote]

\* A slip a change of insert could make: the signer map keeps the first message.
insert_keeping_first(c, message) ==
    IF message \in c.messages
    THEN [collector |-> c, ret |-> NoDoubleVote]
    ELSE LET s == message.signer_index
             c1 == [c EXCEPT !.messages = @ \cup {message}]
         IN  IF s \in DOMAIN c.voted
             THEN [collector |-> c1, ret |-> DoubleVote(s, c.voted[s], message)]
             ELSE [collector |-> [c1 EXCEPT !.voted = (s :> message) @@ @,
                                            !.block_votes =
                                     BlockVotesInsert(@, message.block_hash,
                                                      s, message.signature)],
                   ret |-> NoDoubleVote]

\* A slip a change of insert could make: the witness holds the new message
\* twice.
insert_witnessing_itself(c, message) ==
    IF message \in c.messages
    THEN [collector |-> c, ret |-> NoDoubleVote]
    ELSE LET s == message.signer_index
             c1 == [c EXCEPT !.messages = @ \cup {message},
                             !.voted = (s :> message) @@ @]
         IN  IF s \in DOMAIN c.voted
             THEN [collector |-> c1, ret |-> DoubleVote(s, message, message)]
             ELSE [collector |-> [c1 EXCEPT !.block_votes =
                                     BlockVotesInsert(@, message.block_hash,
                                                      s, message.signature)],
                   ret |-> NoDoubleVote]

\* StepCollector::insert: the collector after the call and the value returned.
insert(c, message) ==
    IF message \in c.messages
    THEN \* messages.insert returned false: nothing is done
         [collector |-> c, ret |-> NoDoubleVote]
    ELSE LET s == message.signer_index
             \* messages.insert, then voted.insert, which overwrites the entry
             c1 == [c EXCEPT !.messages = @ \cup {message},
                             !.voted = (s :> message) @@ @]
         IN  IF s \in DOMAIN c.voted
             THEN [collector |-> c1, ret |-> DoubleVote(s, c.voted[s], message)]
             ELSE [collector |-> [c1 EXCEPT !.block_votes =
                                     BlockVotesInsert(@, message.block_hash,
                                                      s, message.signature)],
                   ret |-> NoDoubleVote]

\* StepCollector::count_block: the bits set in the result.
count_block(c, block_hash) ==
    IF block_hash \in DOMAIN c.block_votes
    THEN DOMAIN c.block_votes[block_hash]
    ELSE {}

\* StepCollector::count trips assert!(!result.is_set(*index)) when some index
\* is met a second time, under another block hash.
count_asserts(c) ==
    \E h1, h2 \in DOMAIN c.block_votes :
        h1 /= h2 /\ DOMAIN c.block_votes[h1] \cap DOMAIN c.block_votes[h2] /= {}

\* StepCollector::count: the bits set in the result.
count(c) == UNION {DOMAIN c.block_votes[h] : h \in DOMAIN c.block_votes}

\* VoteCollector::default(): the dummy entry under VoteStep::default().
DefaultVotes == (0 :> DefaultStepCollector)

\* VoteCollector::vote: the map after the call and the value returned.
vote(vs, message) ==
    LET r == message.round
        c == IF r \in DOMAIN vs THEN vs[r] ELSE DefaultStepCollector
        res == insert(c, message)
    IN  [votes |-> (r :> res.collector) @@ vs, ret |-> res.ret]

\* self.votes.keys().next(): the smallest key, None for an empty map.
Oldest(vs) ==
    IF DOMAIN vs = {} THEN None
    ELSE CHOOSE r \in DOMAIN vs : \A q \in DOMAIN vs : r <= q

\* A slip a change of is_old_or_known could make: only known messages are refused.
is_old_or_known_known_only(vs, message) ==
    message.round \in DOMAIN vs /\ message \in vs[message.round].messages

\* A slip a change of is_old_or_known could make: the smallest round is old too.
is_old_or_known_not_newer(vs, message) ==
    \/ message.round \in DOMAIN vs /\ message \in vs[message.round].messages
    \/ DOMAIN vs = {}
    \/ message.round <= Oldest(vs)

\* VoteCollector::is_old_or_known
is_old_or_known(vs, message) ==
    LET is_known == /\ message.round \in DOMAIN vs
                    /\ message \in vs[message.round].messages
        is_old == \/ DOMAIN vs = {}
                  \/ message.round < Oldest(vs)
    IN  is_known \/ is_old

\* A split that drops the entry of vote_round too.
SplitOff_above(vs, vote_round) ==
    [r \in {q \in DOMAIN vs : q > vote_round} |-> vs[r]]

\* BTreeMap::split_off(vote_round): the entries with key >= vote_round.
SplitOff(vs, vote_round) ==
    [r \in {q \in DOMAIN vs : q >= vote_round} |-> vs[r]]

\* What split_off leaves in self.votes: the entries with key < vote_round.
SplitRest(vs, vote_round) ==
    [r \in {q \in DOMAIN vs : q < vote_round} |-> vs[r]]

\* BTreeMap::iter: the keys of a map from indices, in ascending order.
KeysAscending(map) ==
    CHOOSE keys \in [1..Cardinality(DOMAIN map) -> DOMAIN map] :
        \A i, j \in DOMAIN keys : i < j => keys[i] < keys[j]

\* A collection that lists the indices from the largest to the smallest and
\* the signatures from the smallest index to the largest.
round_signatures_and_indices_reversed(vs, round, block_hash) ==
    IF round \in DOMAIN vs /\ block_hash \in DOMAIN vs[round].block_votes
    THEN LET map == vs[round].block_votes[block_hash]
             keys == KeysAscending(map)
         IN  [sigs |-> [i \in DOMAIN keys |-> map[keys[i]]],
              indices |-> [i \in DOMAIN keys |-> keys[Len(keys) + 1 - i]]]
    ELSE [sigs |-> <<>>, indices |-> <<>>]

\* VoteCollector::round_signatures_and_indices: the entries of the map of the
\* block hash in the order of their keys, unzipped.
round_signatures_and_indices(vs, round, block_hash) ==
    IF round \in DOMAIN vs /\ block_hash \in DOMAIN vs[round].block_votes
    THEN LET map == vs[round].block_votes[block_hash]
             keys == KeysAscending(map)
         IN  [sigs |-> [i \in DOMAIN keys |-> map[keys[i]]],
              indices |-> keys]
    ELSE [sigs |-> <<>>, indices |-> <<>>]

\* VoteCollector::block_round_votes: the bits set in the result.
block_round_votes(vs, round, block_hash) ==
    IF round \in DOMAIN vs THEN count_block(vs[round], block_hash) ELSE {}

\* VoteCollector::round_votes: the bits set in the result.
round_votes(vs, vote_round) ==
    IF vote_round \in DOMAIN vs THEN count(vs[vote_round]) ELSE {}

\* VoteCollector::round_votes reaches the assertion of count.
round_votes_asserts(vs, vote_round) ==
    vote_round \in DOMAIN vs /\ count_asserts(vs[vote_round])

(***************************************************************************)
(* The vote collector as a state machine.                                  *)
(***************************************************************************)
NoMsg == [none |-> TRUE]
NoHistory == [msg |-> NoMsg, admitted |-> FALSE, pruned |-> FALSE, first |-> NoMsg]

\* The collector of a round, as vote sees it (or_insert_with(Default::default)).
Col(vs, r) == IF r \in DOMAIN vs THEN vs[r] ELSE DefaultStepCollector

Stored(vs, message) ==
    message.round \in DOMAIN vs /\ message \in vs[message.round].messages

\* The state database as StateDB::new leaves it; no handle has been cloned.
NoHandle == [live |-> FALSE]
\* No journal_under or sync_cache call has been made on the handle yet.
NoCall == [op |-> "none"]
\* journal_under(now, id) made on the handle; ok: the journal write succeeded.
JournalCall(now, id, ok) ==
    [op |-> "journal_under", now |-> now, id |-> id, ok |-> ok]
\* sync_cache(enacted, retracted, is_best) made on handle h; clear: it wiped
\* the cache.
SyncCall(h, enacted, retracted, is_best, clear) ==
    [op |-> "sync_cache", handle |-> h, enacted |-> enacted,
     retracted |-> retracted, is_best |-> is_best, clear |-> clear]

InitVC ==
    /\ votes = DefaultVotes
    /\ vret = NoDoubleVote
    /\ vop = [op |-> "default"]
    /\ lastBy = [k \in Rounds \X Signers |-> NoHistory]
    /\ thrown = None
    /\ nvotes = 0
    /\ vpanic = FALSE

\* collector.vote(message)
Vote(message) ==
    /\ ~vpanic
    /\ nvotes < MaxVotes
    /\ LET res == vote(votes, message)
           k == <<message.round, message.signer_index>>
           new == ~Stored(votes, message)
       IN  /\ votes' = res.votes
           /\ vret' = res.ret
           /\ lastBy' = [lastBy EXCEPT ![k] =
                  [msg |-> message, admitted |-> new, pruned |-> FALSE,
                   first |-> IF new /\ message.signer_index
                                       \notin DOMAIN Col(votes, message.round).voted
                             THEN message ELSE @.first]]
    /\ vop' = [op |-> "vote", message |-> message]
    /\ nvotes' = nvotes + 1
    /\ UNCHANGED <<thrown, vpanic>>
    /\ UNCHANGED nonvc

\* if !collector.is_old_or_known(&message) { collector.vote(message) }
VoteChecked(message) ==
    /\ ~is_old_or_known(votes, message)
    /\ Vote(message)

\* collector.throw_out_old(&vote_round)
ThrowOutOld(vote_round) ==
    /\ ~vpanic
    /\ vop' = [op |-> "throw_out_old", round |-> vote_round]
    /\ LET new_collector == SplitOff(votes, vote_round)
       IN  IF DOMAIN new_collector /= {}
           THEN /\ votes' = new_collector
                /\ thrown' = IF vote_round > thrown THEN vote_round ELSE thrown
                /\ lastBy' = [k \in Rounds \X Signers |->
                                 IF k[1] < vote_round /\ lastBy[k].msg /= NoMsg
                                 THEN [lastBy[k] EXCEPT !.pruned = TRUE, !.first = NoMsg]
                                 ELSE lastBy[k]]
                /\ UNCHANGED vpanic
           ELSE \* assert!(!new_collector.is_empty()) fails after split_off
                /\ votes' = SplitRest(votes, vote_round)
                /\ vpanic' = TRUE
                /\ UNCHANGED <<thrown, lastBy>>
    /\ UNCHANGED <<vret, nvotes>>
    /\ UNCHANGED nonvc

InitIdleDB ==
    /\ accounts = <<>>
    /\ modifications = <<>>
    /\ handle = NoHandle
    /\ chain = <<>>
    /\ best = None
    /\ pc = 0
    /\ rnd = 0
    /\ call = NoCall

\* The response codec while another part of the node is examined: nothing is
\* encoded or decoded.
InitIdleRm ==
    /\ rm_pc = "idle"
    /\ rm_msg = <<>>
    /\ rm_id = <<>>
    /\ rm_bytes = <<>>
    /\ rm_out = <<>>

\* The handshake engine while another part of the node is examined: no
\* handler.
InitIdleHs ==
    /\ hs_table = <<>>
    /\ connect_queue = <<>>
    /\ socket_in = <<>>
    /\ hs_reading = FALSE
    /\ hs_panic = FALSE
    /\ hs_last = <<>>
    /\ hs_denied = <<>>
    /\ hs_registered = <<>>

\* The extension host while another part of the node is examined: no client,
\* no extension.
InitIdleNet ==
    /\ extensions = {}
    /\ toregister = {}
    /\ registering = ""
    /\ client = "dropped"
    /\ joining = ""
    /\ task = <<>>
    /\ cur = <<>>
    /\ rx = <<>>
    /\ events = <<>>
    /\ event_senders = <<>>
    /\ event_closed = <<>>
    /\ quit = <<>>
    /\ init = <<>>
    /\ active = <<>>
    /\ initialized = <<>>
    /\ undelivered = <<>>
    /\ need_encryption = <<>>
    /\ api_name = <<>>
    /\ api_need_encryption = <<>>
    /\ p2p_channel = <<>>
    /\ sendcall = <<>>

InitVCOnly ==
    InitVC /\ InitIdleDB /\ InitIdleNet /\ InitIdleHs /\ InitIdleRm

NextVC ==
    \/ \E message \in Messages : Vote(message)
    \/ \E vote_round \in Rounds : ThrowOutOld(vote_round)

\* Any calls of vote and throw_out_old, in any order.
SpecVC == InitVCOnly /\ [][NextVC]_vars

NextVCChecked ==
    \/ \E message \in Messages : VoteChecked(message)
    \/ \E vote_round \in Rounds : ThrowOutOld(vote_round)

\* The collector as the engine uses it: vote is called only with a message
\* for which is_old_or_known has just returned false.
SpecVCChecked == InitVCOnly /\ [][NextVCChecked]_vars

\* The step is a call of vote.
IsVoteStep == vop'.op = "vote" /\ nvotes' = nvotes + 1

(* C2 as stated: when vote(m2) follows vote(m1) of the same round and      *)
(* signer, m1 /= m2, with no other message of that signer at that round    *)
(* in between, it returns DoubleVote(signer, m1, m2) and leaves the        *)
(* round's block_votes unchanged.                                          *)
DoubleVoteWitnessAsStated ==
    [][IsVoteStep =>
        LET m2 == vop'.message
            prev == lastBy[<<m2.round, m2.signer_index>>]
        IN  (prev.msg /= NoMsg /\ prev.msg /= m2) =>
                /\ vret' = DoubleVote(m2.signer_index, prev.msg, m2)
                /\ Col(votes', m2.round).block_votes
                       = Col(votes, m2.round).block_votes]_vars

(* C2 as amended: the same, provided vote(m1) admitted m1 (m1 was not      *)
(* stored before), m2 is not stored yet and the round has not been pruned  *)
(* by throw_out_old in between.                                            *)
DoubleVoteWitness ==
    [][IsVoteStep =>
        LET m2 == vop'.message
            prev == lastBy[<<m2.round, m2.signer_index>>]
        IN  (/\ prev.msg /= NoMsg /\ prev.msg /= m2
             /\ prev.admitted /\ ~prev.pruned
             /\ ~Stored(votes, m2)) =>
                /\ vret' = DoubleVote(m2.signer_index, prev.msg, m2)
                /\ Col(votes', m2.round).block_votes
                       = Col(votes, m2.round).block_votes]_vars

C2Witness ==
    /\ vop.op = "vote"
    /\ vret.some
    /\ vret.vote_two = vop.message
    /\ vret.vote_one.block_hash /= vret.vote_two.block_hash

\* The signer has had two different messages admitted in the round.
DoubleVoted(c, s) ==
    \E m1, m2 \in c.messages :
        m1 /= m2 /\ m1.signer_index = s /\ m2.signer_index = s

(* C3: count never trips its assertion, and the number of bits it sets is  *)
(* the number of distinct signers of the messages inserted in the round.   *)
CountIsDistinctSigners ==
    \A r \in DOMAIN votes :
        /\ ~count_asserts(votes[r])
        /\ Cardinality(count(votes[r]))
               = Cardinality({m.signer_index : m \in votes[r].messages})

C3Witness ==
    \E r \in DOMAIN votes :
        /\ \E s \in Signers : DoubleVoted(votes[r], s)
        /\ Cardinality(count(votes[r])) = 2

(* C4 as stated: block_votes holds no entry, under any block hash, for a   *)
(* signer whose double vote was detected in the round, so round_votes does *)
(* not have the signer's bit set.                                          *)
NoProjectionOfDoubleVoter ==
    \A r \in DOMAIN votes : \A s \in Signers :
        DoubleVoted(votes[r], s) =>
            /\ \A h \in BlockHashes : s \notin count_block(votes[r], h)
            /\ s \notin round_votes(votes, r)

(* C4 as amended: for a signer whose double vote was detected in the       *)
(* round, block_votes holds exactly one entry, that of the first message   *)
(* of the signer admitted in the round (the conflicting messages are not   *)
(* projected), so round_votes has the signer's bit set.                    *)
FirstVoteOnlyProjected ==
    \A r \in DOMAIN votes : \A s \in Signers :
        DoubleVoted(votes[r], s) =>
            LET first == lastBy[<<r, s>>].first
            IN  /\ first /= NoMsg
                /\ \A h \in BlockHashes :
                      s \in count_block(votes[r], h) <=> h = first.block_hash
                /\ votes[r].block_votes[first.block_hash][s] = first.signature
                /\ s \in round_votes(votes, r)

C4Witness ==
    \E r \in DOMAIN votes : \E s \in Signers :
        /\ DoubleVoted(votes[r], s)
        /\ votes[r].voted[s].block_hash /= lastBy[<<r, s>>].first.block_hash
        /\ s \in round_votes(votes, r)

(* C5: vote admits a message iff its round is not below the smallest round *)
(* key and it is not stored yet; so the smallest key never decreases.      *)
AdmitsOnlyNotOlder ==
    [][/\ IsVoteStep =>
            LET m == vop'.message
            IN  (Stored(votes', m) /\ ~Stored(votes, m))
                    <=> (m.round >= Oldest(votes) /\ ~Stored(votes, m))
       /\ Oldest(votes') >= Oldest(votes)]_vars

(* C6: once throw_out_old(r) has succeeded, every message of a round below *)
(* r is old or known and none is stored, whatever checked votes and        *)
(* throw_out_old calls follow.                                             *)
OldStaysOut ==
    thrown /= None =>
        \A m \in Messages :
            m.round < thrown => is_old_or_known(votes, m) /\ ~Stored(votes, m)

C6Witness ==
    /\ thrown >= 1
    /\ vop.op = "vote"
    /\ Stored(votes, vop.message)
    /\ vop.message.round >= thrown

(* C7 as stated: a message admitted from a signer new to the round enters  *)
(* the message set, the signer map and block_votes; a detected double vote *)
(* changes the message set only.                                           *)
ProjectionsCoherentAsStated ==
    [][IsVoteStep =>
        LET m == vop'.message
            s == m.signer_index
            c == Col(votes, m.round)
            d == Col(votes', m.round)
        IN  /\ (m \notin c.messages /\ s \notin DOMAIN c.voted) =>
                  /\ d.messages = c.messages \cup {m}
                  /\ d.voted = (s :> m) @@ c.voted
                  /\ d.block_votes = BlockVotesInsert(c.block_votes, m.block_hash,
                                                      s, m.signature)
            /\ vret'.some =>
                  /\ d.messages = c.messages \cup {m}
                  /\ d.voted = c.voted
                  /\ d.block_votes = c.block_votes]_vars

(* C7 as amended: a detected double vote adds the message to the message   *)
(* set and overwrites the signer's entry of the signer map with it;        *)
(* block_votes is left as it was.                                          *)
ProjectionsCoherent ==
    [][IsVoteStep =>
        LET m == vop'.message
            s == m.signer_index
            c == Col(votes, m.round)
            d == Col(votes', m.round)
        IN  /\ (m \notin c.messages /\ s \notin DOMAIN c.voted) =>
                  /\ d.messages = c.messages \cup {m}
                  /\ d.voted = (s :> m) @@ c.voted
                  /\ d.block_votes = BlockVotesInsert(c.block_votes, m.block_hash,
                                                      s, m.signature)
            /\ vret'.some =>
                  /\ d.messages = c.messages \cup {m}
                  /\ d.voted = (s :> m) @@ c.voted
                  /\ d.voted /= c.voted
                  /\ d.block_votes = c.block_votes]_vars

C7Witness ==
    /\ vop.op = "vote"
    /\ vret.some
    /\ votes[vop.message.round].voted[vop.message.signer_index] = vret.vote_two
    /\ vret.author_index \in round_votes(votes, vop.message.round)

(***************************************************************************)
(* The state database: the shared account cache and its handles.           *)
(***************************************************************************)
STATE_CACHE_BLOCKS == 12

\* Bounds of the state database model.
MaxBlocks == 2

Address == {1, 2}
LastAddress == CHOOSE a \in Address : \A b \in Address : b <= a
\* The longest chain built before the model starts leaves the modifications
\* deque one short of its horizon.
PreLen == STATE_CACHE_BLOCKS - 1
\* The lengths of the chains the model starts from.
InitLens == {0, 2, PreLen}
\* H256 of a block; RootParent is the parent of the first block (root_parent
\* of the tests), never a block itself.
RootParent == 0
Hashes == 1..(PreLen + MaxBlocks)

\* Option<Account> of a cached account: None is NoAccount, Some(account) is
\* the account's balance, a positive number.  Absent: the LruCache has no
\* entry for the address (the lookup returns the outer None).
\* The LruCache is taken large enough never to evict: its capacity is at
\* least the number of addresses, so that the order of use is not observable.
Absent == -1
NoAccount == 0

EmptyAccounts == [a \in Address |-> Absent]

\* CacheQueueItem
CacheQueueItem(address, account, modified) ==
    [address |-> address, account |-> account, modified |-> modified]

\* BlockChanges
BlockChanges(number, hash, parent, accs, is_canon) ==
    [number |-> number, hash |-> hash, parent |-> parent,
     accounts |-> accs, is_canon |-> is_canon]

\* StateDB::boxed_clone_canon(parent): a handle with an empty local cache.
boxed_clone_canon(parent) ==
    [live |-> TRUE, parent_hash |-> parent, commit_hash |-> None,
     commit_number |-> None, local_cache |-> <<>>]

\* StateDB::boxed_clone: a handle with no parent_hash.
boxed_clone ==
    [live |-> TRUE, parent_hash |-> None, commit_hash |-> None,
     commit_number |-> None, local_cache |-> <<>>]

\* StateDB::journal_under, the journal write having succeeded.
journal_under(h, now, id) ==
    [h EXCEPT !.commit_hash = id, !.commit_number = now]

\* Backend::add_to_account_cache
add_to_account_cache(h, addr, data, modified) ==
    [h EXCEPT !.local_cache = Append(@, CacheQueueItem(addr, data, modified))]

\* cache.modifications.iter_mut().find(|m| &m.hash == block): its index, 0 for None.
FindModification(mods, block) ==
    IF \E i \in 1..Len(mods) : mods[i].hash = block
    THEN CHOOSE i \in 1..Len(mods) :
            /\ mods[i].hash = block
            /\ \A j \in 1..(i - 1) : mods[j].hash /= block
    ELSE 0

\* A slip a change of the purge could make: the block's accounts stay cached.
PurgeStep_keeping_accounts(st, block, canon) ==
    IF st.clear THEN st
    ELSE LET i == FindModification(st.modifications, block)
         IN  IF i = 0
             THEN [st EXCEPT !.clear = TRUE]
             ELSE [st EXCEPT !.modifications[i].is_canon = canon]

\* A slip a change of the purge could make: a retracted block is flagged as
\* an enacted one.
PurgeStep_flagging_canon(st, block, canon) ==
    IF st.clear THEN st
    ELSE LET i == FindModification(st.modifications, block)
         IN  IF i = 0
             THEN [st EXCEPT !.clear = TRUE]
             ELSE [st EXCEPT
                     !.modifications[i].is_canon = TRUE,
                     !.accounts = [a \in Address |->
                                     IF a \in st.modifications[i].accounts
                                     THEN Absent ELSE @[a]]]

\* One turn of a purge loop of sync_cache: clear = clear || { ... } for an
\* enacted (canon = TRUE) or a retracted (canon = FALSE) block.
PurgeStep(st, block, canon) ==
    IF st.clear
    THEN st  \* || does not evaluate its right side
    ELSE LET i == FindModification(st.modifications, block)
         IN  IF i = 0
             THEN [st EXCEPT !.clear = TRUE]
             ELSE [st EXCEPT
                     !.modifications[i].is_canon = canon,
                     !.accounts = [a \in Address |->
                                     IF a \in st.modifications[i].accounts
                                     THEN Absent ELSE @[a]]]

\* A slip a change of the purge loops could make: only the first block of a
\* list is looked at.
PurgeAll_first_only(st, blocks, canon) ==
    IF blocks = <<>> THEN st ELSE PurgeStep(st, Head(blocks), canon)

RECURSIVE PurgeAll(_, _, _)
PurgeAll(st, blocks, canon) ==
    IF blocks = <<>> THEN st
    ELSE PurgeAll(PurgeStep(st, Head(blocks), canon), Tail(blocks), canon)

\* A slip a change of the propagation could make: the is_best gate is left out.
PropagateItem_ungated(st, item, is_best) ==
    LET existing == st.accounts[item.address]
    IN  [modified |-> IF item.modified THEN st.modified \cup {item.address}
                      ELSE st.modified,
         accounts |->
            IF existing > NoAccount /\ item.account > NoAccount /\ ~item.modified
            THEN st.accounts
            ELSE [st.accounts EXCEPT ![item.address] = item.account]]

\* A slip a change of the propagation could make: only modified accounts
\* reach the shared cache.
PropagateItem_modified_only(st, item, is_best) ==
    [modified |-> IF item.modified THEN st.modified \cup {item.address}
                  ELSE st.modified,
     accounts |-> IF is_best /\ item.modified
                  THEN [st.accounts EXCEPT ![item.address] = item.account]
                  ELSE st.accounts]

\* A slip a change of the propagation could make: under is_best the item
\* always replaces the cached entry.
PropagateItem_replacing(st, item, is_best) ==
    [modified |-> IF item.modified THEN st.modified \cup {item.address}
                  ELSE st.modified,
     accounts |-> IF is_best
                  THEN [st.accounts EXCEPT ![item.address] = item.account]
                  ELSE st.accounts]

\* sync_cache: the turn of the drain loop for one item of local_cache.
PropagateItem(st, item, is_best) ==
    LET existing == st.accounts[item.address]
    IN  [modified |-> IF item.modified THEN st.modified \cup {item.address}
                      ELSE st.modified,
         accounts |->
            IF ~is_best THEN st.accounts
            ELSE IF existing > NoAccount /\ item.account > NoAccount
                 THEN \* Some(Some(existing)) and Some(new): overwrite_with
                      \* when modified, and continue
                      IF item.modified
                      THEN [st.accounts EXCEPT ![item.address] = item.account]
                      ELSE st.accounts
                 ELSE [st.accounts EXCEPT ![item.address] = item.account]]

RECURSIVE PropagateAll(_, _, _)
PropagateAll(st, items, is_best) ==
    IF items = <<>> THEN st
    ELSE PropagateAll(PropagateItem(st, Head(items), is_best), Tail(items), is_best)

\* A slip a change of the insertion could make: the new entry goes before the
\* entries of its own number.
InsertModification_before_equal(mods, block_changes) ==
    IF \E i \in 1..Len(mods) : mods[i].number <= block_changes.number
    THEN LET insert_at == CHOOSE i \in 1..Len(mods) :
                 /\ mods[i].number <= block_changes.number
                 /\ \A j \in 1..(i - 1) : mods[j].number > block_changes.number
         IN  SubSeq(mods, 1, insert_at - 1) \o <<block_changes>>
                 \o SubSeq(mods, insert_at, Len(mods))
    ELSE Append(mods, block_changes)

\* The position a new BlockChanges is inserted at: before the first entry
\* with a smaller number, else at the back.
InsertModification(mods, block_changes) ==
    IF \E i \in 1..Len(mods) : mods[i].number < block_changes.number
    THEN LET insert_at == CHOOSE i \in 1..Len(mods) :
                 /\ mods[i].number < block_changes.number
                 /\ \A j \in 1..(i - 1) : mods[j].number >= block_changes.number
         IN  SubSeq(mods, 1, insert_at - 1) \o <<block_changes>>
                 \o SubSeq(mods, insert_at, Len(mods))
    ELSE Append(mods, block_changes)

\* A slip a change of sync_cache could make: the horizon is not enforced.
EvictAtHorizon_never(mods) == mods

\* if cache.modifications.len() == STATE_CACHE_BLOCKS { pop_back() }
EvictAtHorizon(mods) ==
    IF Len(mods) = STATE_CACHE_BLOCKS THEN SubSeq(mods, 1, Len(mods) - 1) ELSE mods

\* A slip a change of sync_cache could make: nothing is propagated after a wipe.
sync_cache_skipping_after_wipe(accs, mods, h, enacted, retracted, is_best) ==
    LET st0 == [accounts |-> accs, modifications |-> mods, clear |-> FALSE]
        filtered == SelectSeq(enacted,
                       LAMBDA b : h.commit_hash = None \/ b /= h.commit_hash)
        st2 == PurgeAll(PurgeAll(st0, filtered, TRUE), retracted, FALSE)
    IN  IF st2.clear
        THEN [accounts |-> EmptyAccounts, modifications |-> <<>>,
              local_cache |-> h.local_cache, clear |-> TRUE]
        ELSE IF h.commit_number /= None /\ h.commit_hash /= None
                    /\ h.parent_hash /= None
        THEN LET p == PropagateAll([accounts |-> st2.accounts, modified |-> {}],
                                   h.local_cache, is_best)
             IN  [accounts |-> p.accounts,
                  modifications |->
                      InsertModification(EvictAtHorizon(st2.modifications),
                          BlockChanges(h.commit_number, h.commit_hash,
                                       h.parent_hash, p.modified, is_best)),
                  local_cache |-> <<>>, clear |-> FALSE]
        ELSE [accounts |-> st2.accounts, modifications |-> st2.modifications,
              local_cache |-> h.local_cache, clear |-> FALSE]

\* A slip a change of sync_cache could make: the block being committed is
\* looked up like any other enacted block.
sync_cache_unfiltered(accs, mods, h, enacted, retracted, is_best) ==
    LET st0 == [accounts |-> accs, modifications |-> mods, clear |-> FALSE]
        st2 == PurgeAll(PurgeAll(st0, enacted, TRUE), retracted, FALSE)
        st3 == IF st2.clear
               THEN [accounts |-> EmptyAccounts, modifications |-> <<>>]
               ELSE [accounts |-> st2.accounts, modifications |-> st2.modifications]
    IN  IF h.commit_number /= None /\ h.commit_hash /= None /\ h.parent_hash /= None
        THEN LET p == PropagateAll([accounts |-> st3.accounts, modified |-> {}],
                                   h.local_cache, is_best)
             IN  [accounts |-> p.accounts,
                  modifications |->
                      InsertModification(EvictAtHorizon(st3.modifications),
                          BlockChanges(h.commit_number, h.commit_hash,
                                       h.parent_hash, p.modified, is_best)),
                  local_cache |-> <<>>, clear |-> st2.clear]
        ELSE [accounts |-> st3.accounts, modifications |-> st3.modifications,
              local_cache |-> h.local_cache, clear |-> st2.clear]

\* A slip a change of sync_cache could make: the wipe clears modifications
\* and leaves accounts.
sync_cache_wiping_modifications(accs, mods, h, enacted, retracted, is_best) ==
    LET st0 == [accounts |-> accs, modifications |-> mods, clear |-> FALSE]
        filtered == SelectSeq(enacted,
                       LAMBDA b : h.commit_hash = None \/ b /= h.commit_hash)
        st2 == PurgeAll(PurgeAll(st0, filtered, TRUE), retracted, FALSE)
        st3 == IF st2.clear
               THEN [accounts |-> st2.accounts, modifications |-> <<>>]
               ELSE [accounts |-> st2.accounts, modifications |-> st2.modifications]
    IN  IF h.commit_number /= None /\ h.commit_hash /= None /\ h.parent_hash /= None
        THEN LET p == PropagateAll([accounts |-> st3.accounts, modified |-> {}],
                                   h.local_cache, is_best)
             IN  [accounts |-> p.accounts,
                  modifications |->
                      InsertModification(EvictAtHorizon(st3.modifications),
                          BlockChanges(h.commit_number, h.commit_hash,
                                       h.parent_hash, p.modified, is_best)),
                  local_cache |-> <<>>, clear |-> st2.clear]
        ELSE [accounts |-> st3.accounts, modifications |-> st3.modifications,
              local_cache |-> h.local_cache, clear |-> st2.clear]

\* StateDB::sync_cache: the shared cache and the handle's local cache after it.
sync_cache(accs, mods, h, enacted, retracted, is_best) ==
    LET st0 == [accounts |-> accs, modifications |-> mods, clear |-> FALSE]
        filtered == SelectSeq(enacted,
                       LAMBDA b : h.commit_hash = None \/ b /= h.commit_hash)
        st1 == PurgeAll(st0, filtered, TRUE)
        st2 == PurgeAll(st1, retracted, FALSE)
        st3 == IF st2.clear
               THEN [accounts |-> EmptyAccounts, modifications |-> <<>>]
               ELSE [accounts |-> st2.accounts, modifications |-> st2.modifications]
    IN  IF h.commit_number /= None /\ h.commit_hash /= None /\ h.parent_hash /= None
        THEN LET kept == EvictAtHorizon(st3.modifications)
                 p == PropagateAll([accounts |-> st3.accounts, modified |-> {}],
                                   h.local_cache, is_best)
                 block_changes == BlockChanges(h.commit_number, h.commit_hash,
                                               h.parent_hash, p.modified, is_best)
             IN  [accounts |-> p.accounts,
                  modifications |-> InsertModification(kept, block_changes),
                  local_cache |-> <<>>, clear |-> st2.clear]
        ELSE [accounts |-> st3.accounts, modifications |-> st3.modifications,
              local_cache |-> h.local_cache, clear |-> st2.clear]

\* A slip a change of is_allowed could make: the blocks walked over are not
\* asked whether they modified the address.
RECURSIVE AllowedFrom_unmasked(_, _, _, _)
AllowedFrom_unmasked(addr, parent, mods, i) ==
    IF i > Len(mods) THEN FALSE
    ELSE LET m == mods[i]
         IN  IF m.hash = parent /\ m.is_canon THEN TRUE
             ELSE AllowedFrom_unmasked(addr,
                      IF m.hash = parent THEN m.parent ELSE parent, mods, i + 1)

\* A slip a change of is_allowed could make: a parent hash that the loop did
\* not find is let through.
RECURSIVE AllowedFrom_unknown_allowed(_, _, _, _)
AllowedFrom_unknown_allowed(addr, parent, mods, i) ==
    IF i > Len(mods) THEN TRUE
    ELSE LET m == mods[i]
         IN  IF m.hash = parent /\ m.is_canon THEN TRUE
             ELSE IF addr \in m.accounts THEN FALSE
             ELSE AllowedFrom_unknown_allowed(addr,
                      IF m.hash = parent THEN m.parent ELSE parent, mods, i + 1)

\* The loop of is_allowed from entry i on, parent being the hash looked for.
RECURSIVE AllowedFrom(_, _, _, _)
AllowedFrom(addr, parent, mods, i) ==
    IF i > Len(mods) THEN FALSE  \* parent hash is unknown
    ELSE LET m == mods[i]
         IN  IF m.hash = parent /\ m.is_canon THEN TRUE
             ELSE IF addr \in m.accounts THEN FALSE
             ELSE AllowedFrom(addr, IF m.hash = parent THEN m.parent ELSE parent,
                              mods, i + 1)

\* A slip a change of is_allowed could make: later modifications are not consulted.
is_allowed_ignoring_modifications(addr, parent_hash, mods) ==
    parent_hash /= None

\* StateDB::is_allowed
is_allowed(addr, parent_hash, mods) ==
    IF parent_hash = None THEN FALSE
    ELSE IF mods = <<>> THEN TRUE
    ELSE AllowedFrom(addr, parent_hash, mods, 1)

\* Backend::get_cached_account of a handle whose parent_hash is as given:
\* Absent for the outer None.
get_cached_account(accs, mods, parent_hash, addr) ==
    IF ~is_allowed(addr, parent_hash, mods) THEN Absent ELSE accs[addr]

\* Backend::get_cached of a handle whose parent_hash is as given: Absent for
\* the outer None, else the entry the closure f is applied to.
get_cached(accs, mods, parent_hash, addr) ==
    IF ~is_allowed(addr, parent_hash, mods) THEN Absent ELSE accs[addr]

(***************************************************************************)
(* The client around the state database: it imports blocks one at a time,  *)
(* each built on a canonical handle, and hands sync_cache the route the    *)
(* chain computed.  chain and best record the chain as it truly is.        *)
(***************************************************************************)
NoBlocks == <<>>

\* The state of every account before the first block.
RootState == [a \in Address |-> NoAccount]

StateAt(c, p) == IF p \in DOMAIN c THEN c[p].state ELSE RootState

NumberAfter(c, p) == IF p \in DOMAIN c THEN c[p].number + 1 ELSE 0

\* The blocks from the first block down to h.
RECURSIVE PathTo(_, _)
PathTo(c, h) ==
    IF h \notin DOMAIN c THEN <<>> ELSE Append(PathTo(c, c[h].parent), h)

\* The length of the longest common prefix of two paths.
RECURSIVE CommonLen(_, _)
CommonLen(p, q) ==
    IF p = <<>> \/ q = <<>> \/ Head(p) /= Head(q) THEN 0
    ELSE 1 + CommonLen(Tail(p), Tail(q))

\* The route from block from to block to: the blocks leaving the canonical
\* chain and those entering it, each from the common ancestor on.
TreeRoute(c, from, to) ==
    LET pf == PathTo(c, from)
        pt == PathTo(c, to)
        n == CommonLen(pf, pt)
    IN  [retracted |-> SubSeq(pf, n + 1, Len(pf)),
         enacted |-> SubSeq(pt, n + 1, Len(pt))]

\* The state a block leaves: its parent's, with the accounts it modified.
RECURSIVE ApplyItems(_, _)
ApplyItems(state, items) ==
    IF items = <<>> THEN state
    ELSE ApplyItems(IF Head(items).modified
                    THEN [state EXCEPT ![Head(items).address] = Head(items).account]
                    ELSE state,
                    Tail(items))

\* The hash of the next block built; the blocks of the first chain are 1..rnd.
NextHash == PreLen + Cardinality({h \in DOMAIN chain : h > PreLen}) + 1

\* add_to_account_cache for every address up to k, all modified to the value given.
RECURSIVE TouchAll(_, _, _)
TouchAll(h, k, value) ==
    IF k \notin Address THEN h
    ELSE add_to_account_cache(TouchAll(h, k - 1, value), k, value, TRUE)

\* StateDB::new: nothing cached, no block imported.  rnd is the number of
\* blocks the client first imports one on another before it starts to fork.
InitDB ==
    /\ InitVC
    /\ InitIdleNet
    /\ InitIdleHs
    /\ InitIdleRm
    /\ accounts = EmptyAccounts
    /\ modifications = <<>>
    /\ handle = NoHandle
    /\ chain = NoBlocks
    /\ best = None
    /\ pc = 0
    /\ rnd \in InitLens
    /\ call = NoCall

\* The import of one block of the first chain, on the best block and as the
\* new best block: boxed_clone_canon, journal_under, add_to_account_cache
\* and sync_cache in a row.  The first block creates every account and every
\* second block changes the last one.
ImportOnBest ==
    /\ ~handle.live
    /\ Cardinality(DOMAIN chain) < rnd
    /\ LET n == Cardinality(DOMAIN chain) + 1
           parent == IF n = 1 THEN RootParent ELSE best
           h0 == journal_under(boxed_clone_canon(parent), n - 1, n)
           h1 == IF n = 1 THEN TouchAll(h0, LastAddress, n)
                 ELSE IF n % 2 = 0
                      THEN add_to_account_cache(h0, LastAddress, n, TRUE)
                      ELSE h0
           res == sync_cache(accounts, modifications, h1, <<n>>, <<>>, TRUE)
       IN  /\ accounts' = res.accounts
           /\ modifications' = res.modifications
           /\ chain' = (n :> [parent |-> parent, number |-> n - 1,
                              state |-> ApplyItems(StateAt(chain, parent),
                                                   h1.local_cache)]) @@ chain
           /\ best' = n
    /\ UNCHANGED <<handle, pc, rnd, call>>
    /\ UNCHANGED nondb

\* let mut s = state_db.boxed_clone_canon(&parent): the next block is built
\* on one of the highest blocks of the chain or on the parent of one.
CloneCanon(parent) ==
    /\ ~handle.live
    /\ Cardinality(DOMAIN chain) >= rnd
    /\ Cardinality({h \in DOMAIN chain : h > PreLen}) < MaxBlocks
    /\ IF chain = NoBlocks THEN parent = RootParent
       ELSE /\ parent \in DOMAIN chain
            /\ \A h \in DOMAIN chain : chain[parent].number >= chain[h].number - 1
    /\ handle' = boxed_clone_canon(parent)
    /\ call' = NoCall
    /\ UNCHANGED <<accounts, modifications, chain, best, pc, rnd>>
    /\ UNCHANGED nondb

\* s.journal_under(&mut batch, number, &hash)
Journal ==
    /\ handle.live
    /\ handle.commit_hash = None
    /\ handle' = journal_under(handle, NumberAfter(chain, handle.parent_hash), NextHash)
    /\ call' = JournalCall(NumberAfter(chain, handle.parent_hash), NextHash, TRUE)
    /\ UNCHANGED <<accounts, modifications, chain, best, pc, rnd>>
    /\ UNCHANGED nondb

\* The State built on the handle hands over an account it holds: one it
\* changed (data is NoAccount for an account removed, else an account whose
\* balance is the block's hash, so that every write is told apart) or one it
\* only read (data is the account as of the parent block).
Touch(addr, modified, data) ==
    /\ handle.live
    /\ handle.commit_hash /= None
    /\ \A i \in 1..Len(handle.local_cache) : handle.local_cache[i].address < addr
    /\ IF modified THEN data \in {NoAccount, handle.commit_hash}
       ELSE data = StateAt(chain, handle.parent_hash)[addr]
    /\ handle' = add_to_account_cache(handle, addr, data, modified)
    /\ UNCHANGED <<accounts, modifications, chain, best, pc, rnd, call>>
    /\ UNCHANGED nondb

\* s.sync_cache(&enacted, &retracted, is_best) with the route of the import;
\* the handle is dropped afterwards.
Sync(is_best) ==
    /\ handle.live
    /\ handle.commit_hash /= None
    /\ best = None => is_best
    /\ LET b == handle.commit_hash
           c == (b :> [parent |-> handle.parent_hash,
                       number |-> handle.commit_number,
                       state |-> ApplyItems(StateAt(chain, handle.parent_hash),
                                            handle.local_cache)]) @@ chain
           route == IF is_best THEN TreeRoute(c, best, b)
                    ELSE [enacted |-> <<>>, retracted |-> <<>>]
           res == sync_cache(accounts, modifications, handle,
                             route.enacted, route.retracted, is_best)
       IN  /\ accounts' = res.accounts
           /\ modifications' = res.modifications
           /\ chain' = c
           /\ best' = IF is_best THEN b ELSE best
           /\ call' = SyncCall(handle, route.enacted, route.retracted, is_best,
                               res.clear)
    /\ handle' = NoHandle
    /\ UNCHANGED <<pc, rnd>>
    /\ UNCHANGED nondb

NextDB ==
    \/ ImportOnBest
    \/ \E parent \in Hashes \cup {RootParent} : CloneCanon(parent)
    \/ Journal
    \/ \E addr \in Address, modified \in BOOLEAN, data \in Hashes \cup {NoAccount} :
          Touch(addr, modified, data)
    \/ \E is_best \in BOOLEAN : Sync(is_best)

SpecDB == InitDB /\ [][NextDB]_vars

\* What a canonical handle on block p reads for address a.
View(p, a) == get_cached_account(accounts, modifications, p, a)

(* C1: whenever a canonical handle on block p reads Some(x) for an account *)
(* from the shared cache, x is the state of that account as of block p.    *)
CacheReadsTrueState ==
    \A p \in DOMAIN chain \cup {RootParent} : \A a \in Address :
        View(p, a) /= Absent => View(p, a) = StateAt(chain, p)[a]

C1Witness ==
    /\ \E i \in 1..Len(modifications) : ~modifications[i].is_canon
    /\ \E p \in DOMAIN chain : \E a \in Address :
          p > PreLen /\ View(p, a) > NoAccount

(* C8: the modifications deque never holds more than STATE_CACHE_BLOCKS    *)
(* entries, whatever blocks have been committed.                           *)
ModificationsWithinHorizon == Len(modifications) <= STATE_CACHE_BLOCKS

C8Witness ==
    /\ Len(modifications) = STATE_CACHE_BLOCKS
    /\ Cardinality(DOMAIN chain) > STATE_CACHE_BLOCKS

\* The blocks of modifications reached from block p by following the parent
\* fields, p itself left out.
RECURSIVE ModAncestors(_, _)
ModAncestors(mods, p) ==
    LET i == FindModification(mods, p)
    IN  IF i = 0 \/ FindModification(mods, mods[i].parent) = 0 THEN {}
        ELSE {mods[i].parent} \cup ModAncestors(mods, mods[i].parent)

\* The blocks of modifications from p up to, and without, the first
\* canonical one: p itself when it is not canonical, then its parent, ...
RECURSIVE NonCanonChain(_, _)
NonCanonChain(mods, p) ==
    LET i == FindModification(mods, p)
    IN  IF i = 0 \/ mods[i].is_canon THEN {}
        ELSE {p} \cup NonCanonChain(mods, mods[i].parent)

ModifiedIn(mods, b) == mods[FindModification(mods, b)].accounts

(* C9 as stated: a handle reads None for an address whenever any block of  *)
(* modifications that is an ancestor of its parent_hash lists the address. *)
MaskedByAnyAncestor ==
    \A p \in Hashes : \A a \in Address :
        (\E b \in ModAncestors(modifications, p) : a \in ModifiedIn(modifications, b))
            => View(p, a) = Absent

(* C9 as amended: a handle reads None for an address whenever a block of   *)
(* modifications on the parent chain from its parent_hash, before the      *)
(* first canonical block of that chain, lists the address.                 *)
MaskedByNonCanonAncestor ==
    \A p \in Hashes : \A a \in Address :
        (\E b \in NonCanonChain(modifications, p) : a \in ModifiedIn(modifications, b))
            => View(p, a) = Absent

C9Witness ==
    \E p \in Hashes : \E a \in Address :
        /\ accounts[a] /= Absent
        /\ \E b \in NonCanonChain(modifications, p) : a \in ModifiedIn(modifications, b)

\* What a canonical handle on block p reads for address a after the step.
ViewAfter(p, a) == get_cached_account(accounts', modifications', p, a)

\* The step is a call made on the live handle that is not sync_cache.
IsLocalStep == handle.live /\ handle'.live
\* The step is sync_cache(.., is_best = TRUE) on the handle.
IsBestSyncStep == handle.live /\ call'.op = "sync_cache" /\ call' /= call /\ call'.is_best

\* The blocks placed before block h in modifications list address a.
ListedBefore(mods, h, a) ==
    \E i \in 1..Len(mods) :
        /\ a \in mods[i].accounts
        /\ \A j \in 1..i : mods[j].hash /= h

MaxSyncs == 3
\* The blocks the caller commits are numbered 1, 2, ... as it goes, each
\* with its number as hash, on the block committed before it (block 0 at
\* first).
CallHashes == 1..MaxSyncs
\* The accounts handed over while block b is built: removed, or with the
\* balance 10 + b.
CallAccounts == {NoAccount} \cup {10 + b : b \in CallHashes}
\* Lists of up to two different blocks.
CallLists ==
    {<<>>} \cup {<<h>> : h \in CallHashes}
           \cup {x \in CallHashes \X CallHashes : x[1] /= x[2]}
\* The enacted and retracted lists handed to sync_cache: up to two blocks in
\* all, none both enacted and retracted.
CallRoutes ==
    {r \in [enacted : CallLists, retracted : CallLists] :
        /\ Len(r.enacted) + Len(r.retracted) <= 2
        /\ \A i \in 1..Len(r.enacted) : \A j \in 1..Len(r.retracted) :
              r.enacted[i] /= r.retracted[j]}

\* A slip a change of journal_under could make: the handle is stamped before
\* the journal write is known to have succeeded.
try_journal_under_stamping_first(h, now, id, db_ok) ==
    [handle |-> journal_under(h, now, id), ok |-> db_ok]

\* StateDB::journal_under: self.db.journal_under(..)? returns the error
\* before the handle is stamped.
try_journal_under(h, now, id, db_ok) ==
    IF db_ok THEN [handle |-> journal_under(h, now, id), ok |-> TRUE]
    ELSE [handle |-> h, ok |-> FALSE]

InitCalls ==
    /\ InitVC
    /\ InitIdleNet
    /\ InitIdleHs
    /\ InitIdleRm
    /\ accounts = EmptyAccounts
    /\ modifications = <<>>
    /\ handle = NoHandle
    /\ chain = NoBlocks
    /\ best = None
    /\ pc = 0
    /\ rnd = 0
    /\ call = NoCall

\* A handle is cloned when there is none or when the one there is has been
\* through sync_cache (it is dropped).
CanClone == ~handle.live \/ call.op = "sync_cache"

CallBoxedClone ==
    /\ CanClone
    /\ handle' = boxed_clone
    /\ call' = NoCall
    /\ UNCHANGED <<accounts, modifications, chain, best, pc, rnd>>
    /\ UNCHANGED nondb

CallBoxedCloneCanon(parent) ==
    /\ CanClone
    /\ parent = pc
    /\ handle' = boxed_clone_canon(parent)
    /\ call' = NoCall
    /\ UNCHANGED <<accounts, modifications, chain, best, pc, rnd>>
    /\ UNCHANGED nondb

CallAdd(addr, data, modified) ==
    /\ handle.live
    /\ data = 10 + pc + 1
    /\ \A i \in 1..Len(handle.local_cache) : handle.local_cache[i].address < addr
    /\ handle' = add_to_account_cache(handle, addr, data, modified)
    /\ UNCHANGED <<accounts, modifications, chain, best, pc, rnd, call>>
    /\ UNCHANGED nondb

CallJournal(now, id, db_ok) ==
    /\ handle.live
    /\ call.op = "none"
    /\ now = pc + 1 /\ id = pc + 1
    /\ handle' = try_journal_under(handle, now, id, db_ok).handle
    /\ call' = JournalCall(now, id,
                           try_journal_under(handle, now, id, db_ok).ok)
    /\ UNCHANGED <<accounts, modifications, chain, best, pc, rnd>>
    /\ UNCHANGED nondb

CallSync(enacted, retracted, is_best) ==
    /\ handle.live
    /\ call.op /= "sync_cache"
    /\ pc < MaxSyncs
    /\ LET res == sync_cache(accounts, modifications, handle, enacted, retracted,
                             is_best)
       IN  /\ accounts' = res.accounts
           /\ modifications' = res.modifications
           /\ handle' = [handle EXCEPT !.local_cache = res.local_cache]
           /\ call' = SyncCall(handle, enacted, retracted, is_best, res.clear)
    /\ pc' = pc + 1
    /\ UNCHANGED <<chain, best, rnd>>
    /\ UNCHANGED nondb

NextCalls ==
    \/ CallBoxedClone
    \/ \E parent \in CallHashes \cup {0} : CallBoxedCloneCanon(parent)
    \/ \E addr \in Address, data \in CallAccounts, modified \in BOOLEAN :
          CallAdd(addr, data, modified)
    \/ \E now \in CallHashes, id \in CallHashes, db_ok \in BOOLEAN :
          CallJournal(now, id, db_ok)
    \/ \E route \in CallRoutes, is_best \in BOOLEAN :
          CallSync(route.enacted, route.retracted, is_best)

SpecCalls == InitCalls /\ [][NextCalls]_vars

\* The handle commits a block: commit_number, commit_hash and parent_hash
\* are all Some (line 198).
Committing(h) ==
    h.commit_number /= None /\ h.commit_hash /= None /\ h.parent_hash /= None

\* The items of a local cache for address a.
ItemsFor(local_cache, a) ==
    {i \in 1..Len(local_cache) : local_cache[i].address = a}

\* The step is a call of sync_cache by the caller.
IsSyncStep == call'.op = "sync_cache" /\ pc' = pc + 1

\* The step is a call of sync_cache that met an enacted hash (other than the
\* block just committed) or a retracted hash that is not in modifications:
\* clear is true at line 188.
IsWipingSyncStep == IsSyncStep /\ call'.clear

(* C12 as stated: when sync_cache meets an enacted hash (other than the    *)
(* block just committed) or a retracted hash that is not in modifications, *)
(* accounts and modifications are both empty when it returns.              *)
WipeSkipsPropagation ==
    [][IsWipingSyncStep => accounts' = EmptyAccounts /\ modifications' = <<>>]_vars

(* C12 as amended: when sync_cache meets such a hash it clears accounts    *)
(* and modifications and then propagates as usual: on a handle that        *)
(* commits a block, modifications ends up holding the BlockChanges of that *)
(* block alone and, if is_best, accounts holds the handle's local_cache    *)
(* and nothing else; both are empty on return only for a handle that       *)
(* commits no block.                                                       *)
WipeThenPropagates ==
    [][IsWipingSyncStep =>
          /\ ~Committing(handle) =>
                /\ accounts' = EmptyAccounts
                /\ modifications' = <<>>
                /\ handle'.local_cache = handle.local_cache
          /\ Committing(handle) =>
                /\ modifications' =
                      << BlockChanges(handle.commit_number, handle.commit_hash,
                            handle.parent_hash,
                            {handle.local_cache[i].address :
                                i \in {j \in 1..Len(handle.local_cache) :
                                          handle.local_cache[j].modified}},
                            call'.is_best) >>
                /\ \A a \in Address :
                      IF call'.is_best /\ ItemsFor(handle.local_cache, a) /= {}
                      THEN \E i \in ItemsFor(handle.local_cache, a) :
                              accounts'[a] = handle.local_cache[i].account
                      ELSE accounts'[a] = Absent
                /\ handle'.local_cache = <<>>]_vars

C12Witness ==
    /\ call.op = "sync_cache" /\ call.clear /\ call.is_best
    /\ Committing(call.handle)
    /\ call.handle.local_cache /= <<>>
    /\ Len(modifications) = 1 /\ modifications[1].hash = call.handle.commit_hash
    /\ \E a \in Address : accounts[a] /= Absent
    /\ pc >= 2

\* Block h is in modifications and not canonical: it was retracted, or
\* committed as not the best block.
RetractedIn(mods, h) ==
    \E i \in 1..Len(mods) : mods[i].hash = h /\ ~mods[i].is_canon

\* The addresses the entries of block h in modifications list.
ListedBy(mods, h) ==
    UNION {mods[i].accounts : i \in {j \in 1..Len(mods) : mods[j].hash = h}}

\* The step is sync_cache(enacted = [h1, h2], retracted = [], is_best = true)
\* with h1 and h2 retracted blocks of modifications.
IsReenactingStep(h1, h2) ==
    /\ IsSyncStep /\ call'.is_best /\ ~call'.clear
    /\ h1 /= h2
    /\ RetractedIn(modifications, h1) /\ RetractedIn(modifications, h2)
    /\ CallSync(<<h1, h2>>, <<>>, TRUE)

(* C13 as stated: after sync_cache(enacted = [h1, h2], retracted = [],     *)
(* is_best = true) with h1 and h2 retracted blocks of modifications,       *)
(* accounts has no entry for any address these blocks list.                *)
ReorgPurgesAll ==
    [][\A h1, h2 \in CallHashes :
          IsReenactingStep(h1, h2) =>
              \A a \in ListedBy(modifications, h1) \cup ListedBy(modifications, h2) :
                  accounts'[a] = Absent]_vars

(* C13 as amended: after that call, accounts has no entry for an address   *)
(* these blocks list, except for the addresses in the local_cache of the   *)
(* handle when the handle commits a block: those are written back by the   *)
(* propagation of the same call.                                           *)
ReorgPurgesAllButLocal ==
    [][\A h1, h2 \in CallHashes :
          IsReenactingStep(h1, h2) =>
              \A a \in ListedBy(modifications, h1) \cup ListedBy(modifications, h2) :
                  IF Committing(handle) /\ ItemsFor(handle.local_cache, a) /= {}
                  THEN \E i \in ItemsFor(handle.local_cache, a) :
                          accounts'[a] = handle.local_cache[i].account
                  ELSE accounts'[a] = Absent]_vars

C13Witness ==
    /\ call.op = "sync_cache" /\ call.is_best /\ ~call.clear
    /\ ~Committing(call.handle)
    /\ \E i, j \in 1..Len(modifications) :
          /\ i /= j
          /\ modifications[i].is_canon /\ modifications[j].is_canon
          /\ modifications[i].accounts /= {} /\ modifications[j].accounts /= {}
          /\ modifications[i].accounts /= modifications[j].accounts
          /\ \A a \in modifications[i].accounts \cup modifications[j].accounts :
                accounts[a] = Absent

\* accounts after the step has lost entries at most: none is new or changed.
OnlyRemovals == \A a \in Address : accounts'[a] \in {accounts[a], Absent}

\* modifications after the step is empty, or is as before up to the
\* is_canon flags.
OnlyReflagged ==
    \/ modifications' = <<>>
    \/ /\ Len(modifications') = Len(modifications)
       /\ \A i \in 1..Len(modifications) :
             [modifications'[i] EXCEPT !.is_canon = TRUE]
                 = [modifications[i] EXCEPT !.is_canon = TRUE]

(* C14: sync_cache on a handle without parent_hash changes accounts and    *)
(* modifications by the purge or the wipe only (entries of accounts are    *)
(* removed at most, modifications is emptied or reflagged at most) and     *)
(* keeps the handle's local_cache; sync_cache with is_best = false inserts *)
(* or overwrites no entry of accounts.                                     *)
NonCanonicalWritesStayLocal ==
    [][IsSyncStep =>
          /\ handle.parent_hash = None =>
                /\ OnlyRemovals
                /\ OnlyReflagged
                /\ handle'.local_cache = handle.local_cache
          /\ ~call'.is_best => OnlyRemovals]_vars

C14Witness ==
    /\ call.op = "sync_cache" /\ ~call.is_best /\ ~call.clear
    /\ Committing(call.handle)
    /\ \E i \in 1..Len(call.handle.local_cache) :
          LET item == call.handle.local_cache[i]
          IN  /\ item.modified
              /\ accounts[item.address] /= Absent
              /\ accounts[item.address] /= item.account

\* The step is a call of journal_under by the caller.
IsJournalStep == call.op = "none" /\ call'.op = "journal_under"

(* C15: journal_under stamps commit_hash = id and commit_number = now on   *)
(* the handle exactly when the journal write succeeds; when it fails the   *)
(* handle is left as it was, and a following sync_cache on that handle     *)
(* adds no BlockChanges for the failed commit.  The shared cache is not    *)
(* touched by journal_under either way.                                    *)
JournalStampsOnSuccessOnly ==
    [][/\ IsJournalStep =>
             /\ accounts' = accounts /\ modifications' = modifications
             /\ IF call'.ok
                THEN handle' = [handle EXCEPT !.commit_hash = call'.id,
                                              !.commit_number = call'.now]
                ELSE handle' = handle
       /\ (IsSyncStep /\ call.op = "journal_under" /\ ~call.ok) =>
             /\ \A i \in 1..Len(modifications') : modifications'[i].hash /= call.id
             /\ Len(modifications') <= Len(modifications)]_vars

C15Witness ==
    /\ call.op = "journal_under" /\ ~call.ok
    /\ handle.live /\ handle.parent_hash /= None
    /\ handle.commit_hash = None /\ handle.commit_number = None
    /\ handle.local_cache /= <<>>
    /\ modifications /= <<>>

(***************************************************************************)
(* The two tests of state_db.rs, step by step.  The hashes and the address *)
(* are random in the tests; the address and the root hash are drawn here.  *)
(***************************************************************************)
H0 == 1
H1A == 2
H1B == 3
H2A == 4
H2B == 5
H3A == 6
H3B == 7
RandomRoots == {RootParent, 8}

OpClone(parent) == [op |-> "boxed_clone_canon", parent |-> parent]
OpAdd(balance, modified) ==
    [op |-> "add_to_account_cache", account |-> balance, modified |-> modified]
OpJournal(now, id) == [op |-> "journal_under", now |-> now, id |-> id]
OpSync(enacted, retracted, is_best) ==
    [op |-> "sync_cache", enacted |-> enacted, retracted |-> retracted,
     is_best |-> is_best]

\* tests::account_cache
AccountCacheScript ==
    << OpClone(rnd.root_parent), OpAdd(2, FALSE), OpJournal(0, H0),
       OpSync(<<>>, <<>>, TRUE),
       OpClone(H0) >>

\* tests::state_db_smoke
StateDbSmokeScript ==
    << OpClone(rnd.root_parent), OpAdd(2, FALSE), OpJournal(0, H0),
       OpSync(<<>>, <<>>, TRUE),
       OpClone(H0), OpJournal(1, H1A), OpSync(<<>>, <<>>, TRUE),
       OpClone(H0), OpAdd(3, TRUE), OpJournal(1, H1B), OpSync(<<>>, <<>>, FALSE),
       OpClone(H1B), OpAdd(4, TRUE), OpJournal(2, H2B), OpSync(<<>>, <<>>, FALSE),
       OpClone(H1A), OpAdd(5, TRUE), OpJournal(2, H2A), OpSync(<<>>, <<>>, TRUE),
       OpClone(H2A), OpJournal(3, H3A), OpSync(<<>>, <<>>, TRUE),
       OpClone(H3A), OpClone(H1A), OpClone(H2B), OpClone(H1B),
       OpClone(H2B), OpJournal(3, H3B),
       OpSync(<<H1B, H2B, H3B>>, <<H1A, H2A, H3A>>, TRUE),
       OpClone(H3A) >>

Script == IF rnd.test = "account_cache" THEN AccountCacheScript
          ELSE StateDbSmokeScript

InitTests ==
    /\ InitVC
    /\ InitIdleNet
    /\ InitIdleHs
    /\ InitIdleRm
    /\ accounts = EmptyAccounts
    /\ modifications = <<>>
    /\ handle = NoHandle
    /\ chain = NoBlocks
    /\ best = None
    /\ pc = 1
    /\ call = NoCall
    /\ rnd \in [test : {"account_cache", "state_db_smoke"},
                address : Address, root_parent : RandomRoots]

AtOp(op) == pc <= Len(Script) /\ Script[pc].op = op

TestClone ==
    /\ AtOp("boxed_clone_canon")
    /\ handle' = boxed_clone_canon(Script[pc].parent)
    /\ call' = NoCall
    /\ pc' = pc + 1
    /\ UNCHANGED <<accounts, modifications, chain, best, rnd>>
    /\ UNCHANGED nondb

TestAdd ==
    /\ AtOp("add_to_account_cache")
    /\ handle' = add_to_account_cache(handle, rnd.address, Script[pc].account,
                                      Script[pc].modified)
    /\ pc' = pc + 1
    /\ UNCHANGED call
    /\ UNCHANGED <<accounts, modifications, chain, best, rnd>>
    /\ UNCHANGED nondb

TestJournal ==
    /\ AtOp("journal_under")
    /\ handle' = journal_under(handle, Script[pc].now, Script[pc].id)
    /\ call' = JournalCall(Script[pc].now, Script[pc].id, TRUE)
    /\ pc' = pc + 1
    /\ UNCHANGED <<accounts, modifications, chain, best, rnd>>
    /\ UNCHANGED nondb

TestSync ==
    /\ AtOp("sync_cache")
    /\ LET res == sync_cache(accounts, modifications, handle, Script[pc].enacted,
                             Script[pc].retracted, Script[pc].is_best)
       IN  /\ accounts' = res.accounts
           /\ modifications' = res.modifications
           /\ handle' = [handle EXCEPT !.local_cache = res.local_cache]
           /\ call' = SyncCall(handle, Script[pc].enacted, Script[pc].retracted,
                               Script[pc].is_best, res.clear)
    /\ pc' = pc + 1
    /\ UNCHANGED <<chain, best, rnd>>
    /\ UNCHANGED nondb

NextTests == TestClone \/ TestAdd \/ TestJournal \/ TestSync

SpecTests == InitTests /\ [][NextTests]_vars

\* The number of sync_cache calls the test has made.
SyncsDone ==
    Cardinality({i \in 1..(pc - 1) : Script[i].op = "sync_cache"})

(* C10: in state_db_smoke, after the six commits a view on h3a reads the   *)
(* balance 5 written by h2a and the views on h1a, h2b and h1b read None;   *)
(* after the reorganisation onto h3b a view on h3a reads None.             *)
SmokeViews ==
    rnd.test = "state_db_smoke" =>
        /\ SyncsDone = 6 =>
              /\ View(H3A, rnd.address) = 5
              /\ View(H1A, rnd.address) = Absent
              /\ View(H2B, rnd.address) = Absent
              /\ View(H1B, rnd.address) = Absent
        /\ SyncsDone = 7 => View(H3A, rnd.address) = Absent

C10Witness ==
    /\ rnd.test = "state_db_smoke"
    /\ SyncsDone = 7
    /\ handle.live /\ handle.parent_hash = H3A
    /\ \E i \in 1..Len(modifications) :
          modifications[i].hash = H3B /\ modifications[i].is_canon
    /\ \E i \in 1..Len(modifications) :
          /\ modifications[i].hash = H2A /\ ~modifications[i].is_canon
          /\ rnd.address \in modifications[i].accounts


(***************************************************************************)
(* The extension host: src/network/src/client.rs                           *)
(*                                                                         *)
(* Client keeps a registry of extensions.  Each extension has a thread of  *)
(* its own that waits for the init barrier, calls on_initialize and then   *)
(* serves three channels (network, quit, events) in a select loop.         *)
(***************************************************************************)
\* Bound: the items that wait in one unbounded channel.
MaxQueue == 2

\* The names the factories give (tests::message_only_to_target).
Names == {"e1", "e2"}
NoName == ""
\* node_id1 and node_id5 of the test: the nodes messages come from.
NodeIds == {1, 5}
\* The nodes that are added and removed.
Peers == {1}
\* TestExtension::versions.
Versions == {0}
TimerTokens == {0}
\* The values of the extension's event type E.
Events == {"evA", "evB"}

\* enum ExtensionMessage (the data of a Message is always empty in the test).
Message(id) == [type |-> "Message", id |-> id]
NodeAdded(id, version) == [type |-> "NodeAdded", id |-> id, version |-> version]
NodeRemoved(id) == [type |-> "NodeRemoved", id |-> id]
Timeout(token) == [type |-> "Timeout", token |-> token]

\* The callback a thread is in.
NoCallback == [fn |-> "none"]
OnInitialize == [fn |-> "on_initialize"]
OnEvent(event) == [fn |-> "on_event", event |-> event]

\* The match on the item received from the network channel.
Dispatch(item) ==
    CASE item.type = "NodeAdded" -> [fn |-> "on_node_added", item |-> item]
      [] item.type = "NodeRemoved" -> [fn |-> "on_node_removed", item |-> item]
      [] item.type = "Timeout" -> [fn |-> "on_timeout", item |-> item]
      [] item.type = "Message" -> [fn |-> "on_message", item |-> item]

\* A thread that goes to its select loop at once, without the init barrier
\* and without on_initialize.
spawn_entry_skipping_barrier(name) == "ready"

\* Where the spawned thread first blocks: init_receiver.recv().
spawn_entry(name) == "init_recv"

\* A host that tells one extension only that a node was removed.
on_node_removed_targets_one(exts) ==
    IF exts = {} THEN {} ELSE {CHOOSE e \in exts : TRUE}

\* A host that hands a message to every extension of the registry.
on_message_targets_all(exts, name) == exts

\* The extensions a host call sends to.
on_node_removed_targets(exts) == exts
on_node_added_targets(exts, name) == IF name \in exts THEN {name} ELSE {}
on_message_targets(exts, name) == IF name \in exts THEN {name} ELSE {}

\* A channel whose receiver lives: the thread has not ended.
Receiving(name) == task[name] /= "done"

\* Sender::send on the network channels of the targets; a send to a channel
\* whose receiver is gone fails and is only logged.
SendAll(targets, item) ==
    [e \in Names |-> IF e \in targets /\ Receiving(e)
                     THEN Append(rx[e], item) ELSE rx[e]]

\* The channels are unbounded; the model lets a send happen while every
\* target has room.
HasRoom(targets) == \A e \in targets : Len(rx[e]) < MaxQueue

\* A receiver that takes the newest item of the channel.
try_recv_newest(chan) ==
    [item |-> chan[Len(chan)], rest |-> SubSeq(chan, 1, Len(chan) - 1)]

\* Receiver::try_recv on a channel that holds an item.
try_recv(chan) == [item |-> Head(chan), rest |-> Tail(chan)]

\* A select that looks at the quit channel only when the network channel is
\* empty.
ReadyOps_network_first(name) ==
    {op \in {"rx", "quit", "event"} :
        \/ op = "rx" /\ rx[name] /= <<>>
        \/ op = "quit" /\ quit[name] > 0 /\ rx[name] = <<>>
        \/ op = "event" /\ ~event_closed[name]
              /\ (events[name] /= <<>> \/ ~event_senders[name])}

\* The operations of the select that are ready for the thread of name.
ReadyOps(name) ==
    {op \in {"rx", "quit", "event"} :
        \/ op = "rx" /\ rx[name] /= <<>>
        \/ op = "quit" /\ quit[name] > 0
        \/ op = "event" /\ ~event_closed[name]
              /\ (events[name] /= <<>> \/ ~event_senders[name])}

\* P2pMessage::SendExtensionMessage.
SendExtensionMessage(node_id, extension_name, need, data) ==
    [node_id |-> node_id, extension_name |-> extension_name,
     need_encryption |-> need, data |-> data]
\* Nothing posted yet; no call of send yet.
NoPost == [node_id |-> None]
NoSend == [name |-> NoName]
\* The bytes an extension sends.
Data == {"x", "y"}

\* An API that posts every message as one that needs no encryption.
api_message_unencrypted(name, id, data) ==
    SendExtensionMessage(id, api_name[name], FALSE, data)

\* The message ClientApi::send builds from the fields of the API.
api_message(name, id, data) ==
    SendExtensionMessage(id, api_name[name], api_need_encryption[name], data)

\* The start of the thread: if need_encryption { store(true) }.
latch(flag, declared) == IF declared THEN TRUE ELSE flag

\* Client::new, with the extensions the program is going to register.
InitHost(names) ==
    /\ extensions = {}
    /\ toregister = names
    /\ registering = NoName
    /\ client = "alive"
    /\ joining = NoName
    /\ task = [e \in Names |-> "none"]
    /\ cur = [e \in Names |-> NoCallback]
    /\ rx = [e \in Names |-> <<>>]
    /\ events = [e \in Names |-> <<>>]
    /\ event_senders = [e \in Names |-> FALSE]
    /\ event_closed = [e \in Names |-> FALSE]
    /\ quit = [e \in Names |-> 0]
    /\ init = [e \in Names |-> 0]
    /\ active = [e \in Names |-> 0]
    /\ initialized = [e \in Names |-> 0]
    /\ undelivered = [e \in Names |-> 0]
    /\ api_name = [e \in Names |-> NoName]
    /\ api_need_encryption = [e \in Names |-> FALSE]
    /\ p2p_channel = NoPost
    /\ sendcall = NoSend

\* TestExtension::need_encryption.
TestNeedEncryption == [e \in Names |-> FALSE]

InitClient ==
    /\ InitIdleHs
    /\ InitIdleRm
    /\ InitVC /\ InitIdleDB /\ InitHost(Names)
    /\ need_encryption = TestNeedEncryption

\* register_extension up to the spawn: the write lock is taken and the thread
\* starts; it runs to init_receiver.recv().
RegisterSpawn(name) ==
    /\ client = "alive" /\ registering = NoName
    /\ name \in toregister
    /\ toregister' = toregister \ {name}
    /\ registering' = name
    /\ task' = [task EXCEPT ![name] = spawn_entry(name)]
    /\ api_name' = [api_name EXCEPT ![name] = name]
    /\ api_need_encryption' =
          [api_need_encryption EXCEPT ![name] = latch(@, need_encryption[name])]
    /\ UNCHANGED <<extensions, client, joining, cur, rx, events, event_senders,
                   event_closed, quit, init, active, initialized, undelivered>>
    /\ UNCHANGED <<need_encryption, p2p_channel, sendcall>>
    /\ UNCHANGED nonhost

\* register_extension from the insert on: the extension enters the registry,
\* the init barrier is released, the lock is released and the caller gets
\* the event sender.
RegisterInsert(name) ==
    /\ registering = name
    /\ extensions' = extensions \cup {name}
    /\ init' = [init EXCEPT ![name] = 1]
    /\ event_senders' = [event_senders EXCEPT ![name] = TRUE]
    /\ registering' = NoName
    /\ UNCHANGED <<toregister, client, joining, task, cur, rx, events,
                   event_closed, quit, active, initialized, undelivered>>
    /\ UNCHANGED apivars
    /\ UNCHANGED nonhost

\* The read lock of a host call: the client lives and no registration holds
\* the write lock.
CanRead == client = "alive" /\ registering = NoName

\* Client::on_node_removed.
HostOnNodeRemoved(id) ==
    /\ CanRead
    /\ HasRoom(on_node_removed_targets(extensions))
    /\ rx' = SendAll(on_node_removed_targets(extensions), NodeRemoved(id))
    /\ UNCHANGED <<extensions, toregister, registering, client, joining, task,
                   cur, events, event_senders, event_closed, quit, init,
                   active, initialized, undelivered>>
    /\ UNCHANGED apivars
    /\ UNCHANGED nonhost

\* Client::on_node_added.
HostOnNodeAdded(name, id, version) ==
    /\ CanRead
    /\ HasRoom(on_node_added_targets(extensions, name))
    /\ rx' = SendAll(on_node_added_targets(extensions, name),
                     NodeAdded(id, version))
    /\ UNCHANGED <<extensions, toregister, registering, client, joining, task,
                   cur, events, event_senders, event_closed, quit, init,
                   active, initialized, undelivered>>
    /\ UNCHANGED apivars
    /\ UNCHANGED nonhost

\* Client::on_message.
HostOnMessage(name, id) ==
    /\ CanRead
    /\ HasRoom(on_message_targets(extensions, name))
    /\ rx' = SendAll(on_message_targets(extensions, name), Message(id))
    /\ undelivered' =
          [e \in Names |-> IF e = name /\ e \in extensions /\ Receiving(e)
                           THEN undelivered[e] + 1 ELSE undelivered[e]]
    /\ UNCHANGED <<extensions, toregister, registering, client, joining, task,
                   cur, events, event_senders, event_closed, quit, init,
                   active, initialized>>
    /\ UNCHANGED apivars
    /\ UNCHANGED nonhost

\* ClientApi::on_timeout, called by a thread of the timer loop for a timer of
\* the extension; the timer loop is dropped after the registry.
TimerFire(name, token) ==
    /\ client /= "dropped"
    /\ task[name] \notin {"none", "done"}
    /\ HasRoom({name})
    /\ rx' = SendAll({name}, Timeout(token))
    /\ UNCHANGED <<extensions, toregister, registering, client, joining, task,
                   cur, events, event_senders, event_closed, quit, init,
                   active, initialized, undelivered>>
    /\ UNCHANGED apivars
    /\ UNCHANGED nonhost

\* The program sends an event with the sender register_extension returned.
EventSend(name, event) ==
    /\ event_senders[name] /\ Receiving(name)
    /\ Len(events[name]) < MaxQueue
    /\ events' = [events EXCEPT ![name] = Append(@, event)]
    /\ UNCHANGED <<extensions, toregister, registering, client, joining, task,
                   cur, rx, event_senders, event_closed, quit, init,
                   active, initialized, undelivered>>
    /\ UNCHANGED apivars
    /\ UNCHANGED nonhost

\* The program drops its event sender: the events channel is disconnected.
EventSenderDrop(name) ==
    /\ event_senders[name]
    /\ event_senders' = [event_senders EXCEPT ![name] = FALSE]
    /\ UNCHANGED <<extensions, toregister, registering, client, joining, task,
                   cur, rx, events, event_closed, quit, init,
                   active, initialized, undelivered>>
    /\ UNCHANGED apivars
    /\ UNCHANGED nonhost

\* The thread enters a callback.
Enter(name, callback) ==
    /\ task' = [task EXCEPT ![name] = "callback"]
    /\ cur' = [cur EXCEPT ![name] = callback]
    /\ active' = [active EXCEPT ![name] = @ + 1]
    /\ initialized' = [initialized EXCEPT ![name] =
                          IF callback = OnInitialize THEN @ + 1 ELSE @]
    /\ undelivered' = [undelivered EXCEPT ![name] =
                          IF callback.fn = "on_message" THEN @ - 1 ELSE @]

\* The thread: init_receiver.recv() returns and on_initialize is called.
TaskInitialize(name) ==
    /\ task[name] = "init_recv"
    /\ init[name] > 0
    /\ init' = [init EXCEPT ![name] = 0]
    /\ Enter(name, OnInitialize)
    /\ UNCHANGED <<extensions, toregister, registering, client, joining,
                   rx, events, event_senders, event_closed, quit>>
    /\ UNCHANGED apivars
    /\ UNCHANGED nonhost

\* The thread: the callback returns, the loop goes on to the next select.
TaskReturn(name) ==
    /\ task[name] = "callback"
    /\ task' = [task EXCEPT ![name] = "ready"]
    /\ cur' = [cur EXCEPT ![name] = NoCallback]
    /\ active' = [active EXCEPT ![name] = @ - 1]
    /\ UNCHANGED <<extensions, toregister, registering, client, joining,
                   rx, events, event_senders, event_closed, quit, init,
                   initialized, undelivered>>
    /\ UNCHANGED apivars
    /\ UNCHANGED nonhost

\* The thread: the select gives rx_index; the item is dispatched.
TaskRecvNetwork(name) ==
    /\ task[name] = "ready"
    /\ "rx" \in ReadyOps(name)
    /\ LET r == try_recv(rx[name]) IN
          /\ rx' = [rx EXCEPT ![name] = r.rest]
          /\ Enter(name, Dispatch(r.item))
    /\ UNCHANGED <<extensions, toregister, registering, client, joining,
                   events, event_senders, event_closed, quit, init>>
    /\ UNCHANGED apivars
    /\ UNCHANGED nonhost

\* A slip a change of the loop could make: the quit arm continues instead of
\* breaking.
TaskRecvQuit_continuing(name) ==
    /\ task[name] = "ready"
    /\ "quit" \in ReadyOps(name)
    /\ quit' = [quit EXCEPT ![name] = 0]
    /\ UNCHANGED <<extensions, toregister, registering, client, joining, task,
                   cur, rx, events, event_senders, event_closed, init, active,
                   initialized, undelivered>>
    /\ UNCHANGED apivars
    /\ UNCHANGED nonhost

\* The thread: the select gives quit_index; the loop breaks and the thread
\* ends, its receivers are dropped with what they hold.
TaskRecvQuit(name) ==
    /\ task[name] = "ready"
    /\ "quit" \in ReadyOps(name)
    /\ quit' = [quit EXCEPT ![name] = 0]
    /\ task' = [task EXCEPT ![name] = "done"]
    /\ rx' = [rx EXCEPT ![name] = <<>>]
    /\ events' = [events EXCEPT ![name] = <<>>]
    /\ UNCHANGED <<extensions, toregister, registering, client, joining, cur,
                   event_senders, event_closed, init, active, initialized,
                   undelivered>>
    /\ UNCHANGED apivars
    /\ UNCHANGED nonhost

\* The thread: the select gives event_index and the channel holds an event.
TaskRecvEvent(name) ==
    /\ task[name] = "ready"
    /\ "event" \in ReadyOps(name)
    /\ events[name] /= <<>>
    /\ LET r == try_recv(events[name]) IN
          /\ events' = [events EXCEPT ![name] = r.rest]
          /\ Enter(name, OnEvent(r.item))
    /\ UNCHANGED <<extensions, toregister, registering, client, joining,
                   rx, event_senders, event_closed, quit, init>>
    /\ UNCHANGED apivars
    /\ UNCHANGED nonhost

\* A slip a change of the loop could make: the disconnected events channel
\* ends the thread, as the disconnected network channel does.
TaskEventDisconnected_breaking(name) ==
    /\ task[name] = "ready"
    /\ "event" \in ReadyOps(name)
    /\ events[name] = <<>>
    /\ event_closed' = [event_closed EXCEPT ![name] = TRUE]
    /\ task' = [task EXCEPT ![name] = "done"]
    /\ UNCHANGED <<extensions, toregister, registering, client, joining,
                   cur, rx, events, event_senders, quit, init,
                   active, initialized, undelivered>>
    /\ UNCHANGED apivars
    /\ UNCHANGED nonhost

\* The thread: the select gives event_index, the channel is empty and
\* disconnected.
TaskEventDisconnected(name) ==
    /\ task[name] = "ready"
    /\ "event" \in ReadyOps(name)
    /\ events[name] = <<>>
    /\ event_closed' = [event_closed EXCEPT ![name] = TRUE]
    /\ UNCHANGED <<extensions, toregister, registering, client, joining, task,
                   cur, rx, events, event_senders, quit, init,
                   active, initialized, undelivered>>
    /\ UNCHANGED apivars
    /\ UNCHANGED nonhost

\* The last reference to the Client goes: its registry is dropped, one
\* Extension after the other.
ClientDrop ==
    /\ CanRead
    /\ toregister = {}
    /\ client' = IF extensions = {} THEN "dropped" ELSE "dropping"
    /\ UNCHANGED <<extensions, toregister, registering, joining, task, cur,
                   rx, events, event_senders, event_closed, quit, init,
                   active, initialized, undelivered>>
    /\ UNCHANGED apivars
    /\ UNCHANGED nonhost

\* Extension::drop up to the join: quit is sent.
DropSendQuit(name) ==
    /\ client = "dropping" /\ joining = NoName
    /\ name \in extensions
    /\ quit' = [quit EXCEPT ![name] = IF Receiving(name) THEN 1 ELSE @]
    /\ joining' = name
    /\ UNCHANGED <<extensions, toregister, registering, client, task, cur,
                   rx, events, event_senders, event_closed, init,
                   active, initialized, undelivered>>
    /\ UNCHANGED apivars
    /\ UNCHANGED nonhost

\* Extension::drop: join returns when the thread has ended.
DropJoin(name) ==
    /\ joining = name
    /\ task[name] = "done"
    /\ joining' = NoName
    /\ extensions' = extensions \ {name}
    /\ client' = IF extensions = {name} THEN "dropped" ELSE client
    /\ UNCHANGED <<toregister, registering, task, cur, rx, events,
                   event_senders, event_closed, quit, init,
                   active, initialized, undelivered>>
    /\ UNCHANGED apivars
    /\ UNCHANGED nonhost

\* The program of tests::message_only_to_target, with any host calls: the
\* extensions have the event type Never and set no timer, and the program
\* keeps what register_extension returned until the client is dropped.
NextClient ==
    \/ \E name \in Names : RegisterSpawn(name)
    \/ \E name \in Names : RegisterInsert(name)
    \/ \E id \in Peers : HostOnNodeRemoved(id)
    \/ \E name \in Names, id \in Peers, version \in Versions :
          HostOnNodeAdded(name, id, version)
    \/ \E name \in Names, id \in NodeIds : HostOnMessage(name, id)
    \/ \E name \in Names : TaskInitialize(name)
    \/ \E name \in Names : TaskReturn(name)
    \/ \E name \in Names : TaskRecvNetwork(name)
    \/ \E name \in Names : TaskRecvQuit(name)
    \/ ClientDrop
    \/ \E name \in Names : DropSendQuit(name)
    \/ \E name \in Names : DropJoin(name)

SpecClient == InitClient /\ [][NextClient]_vars

\* A program that registers one extension, which sets timers and has events.
OneName == {"e1"}
InitExtension ==
    /\ InitIdleHs
    /\ InitIdleRm
    /\ InitVC /\ InitIdleDB /\ InitHost(OneName)
    /\ need_encryption = TestNeedEncryption

NextExtension ==
    \/ \E name \in Names : RegisterSpawn(name)
    \/ \E name \in Names : RegisterInsert(name)
    \/ \E id \in Peers : HostOnNodeRemoved(id)
    \/ \E name \in Names, id \in Peers, version \in Versions :
          HostOnNodeAdded(name, id, version)
    \/ \E name \in Names, id \in NodeIds : HostOnMessage(name, id)
    \/ \E name \in Names, token \in TimerTokens : TimerFire(name, token)
    \/ \E name \in Names, event \in Events : EventSend(name, event)
    \/ \E name \in Names : EventSenderDrop(name)
    \/ \E name \in Names : TaskInitialize(name)
    \/ \E name \in Names : TaskReturn(name)
    \/ \E name \in Names : TaskRecvNetwork(name)
    \/ \E name \in Names : TaskRecvQuit(name)
    \/ \E name \in Names : TaskRecvEvent(name)
    \/ \E name \in Names : TaskEventDisconnected(name)
    \/ ClientDrop
    \/ \E name \in Names : DropSendQuit(name)
    \/ \E name \in Names : DropJoin(name)

SpecExtension == InitExtension /\ [][NextExtension]_vars

\* ClientApi::send, called by the extension from one of its callbacks; the
\* post to the P2P channel succeeds or fails, a failure is only logged.
ApiSend(name, id, data, ok) ==
    /\ task[name] = "callback"
    /\ p2p_channel' = IF ok THEN api_message(name, id, data) ELSE p2p_channel
    /\ sendcall' = [name |-> name, node_id |-> id, data |-> data, ok |-> ok,
                    failed |-> sendcall.name /= NoName
                               /\ (sendcall.failed \/ ~sendcall.ok)]
    /\ UNCHANGED <<need_encryption, api_name, api_need_encryption>>
    /\ UNCHANGED netvars
    /\ UNCHANGED nonhost

\* A program that registers one extension, which declares either value of
\* need_encryption and sends from its callbacks.
InitApi ==
    /\ InitIdleHs
    /\ InitIdleRm
    /\ InitVC /\ InitIdleDB /\ InitHost(OneName)
    /\ need_encryption \in {[e \in Names |-> e \in OneName /\ b] : b \in BOOLEAN}

NextApi ==
    \/ \E name \in Names : RegisterSpawn(name)
    \/ \E name \in Names : RegisterInsert(name)
    \/ \E name \in Names, id \in NodeIds : HostOnMessage(name, id)
    \/ \E name \in Names : TaskInitialize(name)
    \/ \E name \in Names : TaskReturn(name)
    \/ \E name \in Names : TaskRecvNetwork(name)
    \/ \E name \in Names, id \in NodeIds, data \in Data, ok \in BOOLEAN :
          ApiSend(name, id, data, ok)

SpecApi == InitApi /\ [][NextApi]_vars

\* C21: every message an extension posts with send from one of its
\* callbacks carries the name of the extension, the node and the data given
\* and the need_encryption the extension declared; the flag of the API does
\* not change once the thread has started; a post that fails changes neither
\* the P2P channel nor the thread, which stays in its callback and can send
\* again.
SendCarriesOwnNameAndFlag ==
    [][/\ sendcall' /= sendcall =>
            /\ task' = task /\ cur' = cur
            /\ task[sendcall'.name] = "callback"
            /\ p2p_channel' =
                  IF sendcall'.ok
                  THEN SendExtensionMessage(sendcall'.node_id, sendcall'.name,
                                            need_encryption[sendcall'.name],
                                            sendcall'.data)
                  ELSE p2p_channel
       /\ sendcall' = sendcall => p2p_channel' = p2p_channel
       /\ \A name \in Names :
            task[name] /= "none" =>
                /\ api_need_encryption[name] = need_encryption[name]
                /\ api_need_encryption'[name] = api_need_encryption[name]
                /\ api_name'[name] = name]_vars

\* An extension that declared need_encryption has posted a message from
\* on_message after an earlier post of it had failed.
C21Witness ==
    /\ sendcall.name /= NoName
    /\ sendcall.ok /\ sendcall.failed
    /\ need_encryption[sendcall.name]
    /\ cur[sendcall.name].fn = "on_message"
    /\ p2p_channel = SendExtensionMessage(sendcall.node_id, sendcall.name,
                                          TRUE, sendcall.data)

(***************************************************************************)
(* Properties of the thread of one extension (SpecExtension).              *)
(***************************************************************************)
\* The thread of name is in a callback other than on_initialize.
InOtherCallback(name) == cur[name] \notin {NoCallback, OnInitialize}

\* C16: for one extension, on_initialize is invoked once, before every other
\* callback, and no two callbacks of the extension are in execution at the
\* same time, whatever the host calls, timers and events that arrive.
InitializeFirstAndNoOverlap ==
    \A name \in Names :
        /\ initialized[name] <= 1
        /\ active[name] <= 1
        /\ active[name] = (IF cur[name] = NoCallback THEN 0 ELSE 1)
        /\ InOtherCallback(name) => initialized[name] = 1
        /\ task[name] \in {"ready", "done"} => initialized[name] = 1
        /\ cur[name] = OnInitialize => initialized[name] = 1

\* The extension is in a callback after on_initialize while a network item,
\* an event and the quit signal are all waiting for its thread.
C16Witness ==
    \E name \in Names :
        /\ InOtherCallback(name)
        /\ initialized[name] = 1
        /\ rx[name] /= <<>>
        /\ events[name] /= <<>>
        /\ quit[name] > 0

\* What a step may do to a channel: leave it, put one item at its end, take
\* its oldest item for the callback the thread of name enters, or drop it
\* with the thread.
ChannelStep(name, before, after, entered) ==
    \/ after = before
    \/ Len(after) = Len(before) + 1 /\ SubSeq(after, 1, Len(before)) = before
    \/ before /= <<>> /\ after = Tail(before) /\ cur'[name] = entered
    \/ task'[name] = "done" /\ after = <<>>

\* C19: for one extension, the items of the network channel, node events,
\* messages and timeouts alike, go to the callbacks in the order they were
\* sent, and so do the events of the events channel among themselves; which
\* of the two channels is served next is not determined.
DeliveredInOrder ==
    [][\A name \in Names :
          /\ ChannelStep(name, rx[name], rx'[name],
                         IF rx[name] = <<>> THEN NoCallback
                         ELSE Dispatch(Head(rx[name])))
          /\ ChannelStep(name, events[name], events'[name],
                         IF events[name] = <<>> THEN NoCallback
                         ELSE OnEvent(Head(events[name])))
          /\ cur'[name] /= cur[name] /\ cur'[name] \notin {NoCallback, OnInitialize}
                => \/ rx[name] /= <<>> /\ rx'[name] = Tail(rx[name])
                      /\ cur'[name] = Dispatch(Head(rx[name]))
                      /\ events'[name] = events[name]
                   \/ events[name] /= <<>> /\ events'[name] = Tail(events[name])
                      /\ cur'[name] = OnEvent(Head(events[name]))
                      /\ rx'[name] = rx[name]]_vars

\* The thread is in on_event for the older of two events while a timeout and
\* a message sent after it wait in the network channel.
C19Witness ==
    \E name \in Names, token \in TimerTokens, id \in NodeIds :
        /\ cur[name] = OnEvent("evA")
        /\ events[name] = <<"evB">>
        /\ rx[name] = <<Timeout(token), Message(id)>>

\* The scheduling of the threads.  A thread that can take a step takes one:
\* the thread of an extension leaves init_receiver.recv() once the barrier
\* is released, its callbacks return, and its select serves an operation
\* that is ready.  Select::ready picks at random among the operations that
\* are ready, so quit, which stays ready once sent, is picked at some
\* iteration.  The thread in Extension::drop sends quit and leaves join when
\* the thread it joins has ended.  The host calls, the timers and the events
\* of the program may come at any time, or never.
FairThreads ==
    \A name \in OneName :
        /\ WF_vars(TaskInitialize(name))
        /\ WF_vars(TaskReturn(name))
        /\ WF_vars(TaskRecvNetwork(name) \/ TaskRecvQuit(name)
                   \/ TaskRecvEvent(name) \/ TaskEventDisconnected(name))
        /\ SF_vars(TaskRecvQuit(name))
        /\ WF_vars(DropSendQuit(name))
        /\ WF_vars(DropJoin(name))

SpecExtensionFair == SpecExtension /\ FairThreads

\* C20: the drop of an Extension sends quit and joins the thread, and the
\* join returns: once quit is sent the thread leaves its loop and ends,
\* whatever waits in its channels and whatever still arrives.
JoinReturns ==
    \A name \in OneName :
        /\ (quit[name] > 0) ~> (task[name] = "done")
        /\ (joining = name) ~> (joining = NoName /\ name \notin extensions)

\* The client is dropped and the thread of a registered extension has ended
\* with a message that was accepted for it and never handed to on_message.
C20Witness ==
    \E name \in Names :
        /\ client = "dropped"
        /\ task[name] = "done"
        /\ initialized[name] = 1
        /\ undelivered[name] > 0

(***************************************************************************)
(* Properties of the routing between several extensions (SpecClient).      *)
(***************************************************************************)
\* The items of one type that wait in a channel.
Waiting(chan, type) == Cardinality({i \in 1..Len(chan) : chan[i].type = type})

\* C17: with several extensions registered, every call of on_message gives
\* one on_message callback to the extension registered under the name while
\* its thread runs (the message waits in its channel until then) and none to
\* any other extension; a call with a name that is not registered gives
\* nothing to anyone.
MessageOnlyToTarget ==
    \A name \in Names :
        /\ undelivered[name] >= 0
        /\ Receiving(name) => Waiting(rx[name], "Message") = undelivered[name]
        /\ name \in toregister => undelivered[name] = 0

\* Both extensions are registered and initialized, one is in the on_message
\* callback of the only message accepted for it, the other has nothing to do.
C17Witness ==
    \E name \in Names, other \in Names :
        /\ name /= other
        /\ {name, other} \subseteq extensions
        /\ cur[name].fn = "on_message"
        /\ undelivered[name] = 0
        /\ task[other] = "ready"
        /\ rx[other] = <<>>

\* The network channels after item has been sent to the extensions of
\* names and to no other.
SentTo(names, item) ==
    \A e \in Names :
        rx'[e] = IF e \in names THEN Append(rx[e], item) ELSE rx[e]

\* C18: on_node_removed(id) puts one NodeRemoved(id) at the end of the
\* network channel of every extension that is in the registry at the call,
\* and on_node_added(name, id, version) puts one NodeAdded(id, version) at
\* the end of the channel of the extension registered under name only.
RemovedToAllAddedToOne ==
    [][/\ \A id \in Peers :
            HostOnNodeRemoved(id) => SentTo(extensions, NodeRemoved(id))
       /\ \A name \in Names, id \in Peers, version \in Versions :
            HostOnNodeAdded(name, id, version) =>
                SentTo(extensions \cap {name}, NodeAdded(id, version))]_vars

\* Two registered extensions, both have been told of the removal of a node
\* and one of them of its addition before.
C18Witness ==
    \E name \in Names, other \in Names, id \in Peers, version \in Versions :
        /\ name /= other
        /\ {name, other} \subseteq extensions
        /\ rx[name] = <<NodeAdded(id, version), NodeRemoved(id)>>
        /\ rx[other] = <<NodeRemoved(id)>>

(***************************************************************************)
(* The handshake engine: src/network/src/handshake/handshake.rs            *)
(*                                                                         *)
(* Handler serves a UDP socket.  A ConnectTo message queues a peer and     *)
(* gives it a session; a writable event sends a ConnectionRequest to every *)
(* queued peer; a readable event drains the socket, one datagram for each  *)
(* iteration, each iteration under the lock of Internal.                   *)
(***************************************************************************)
\* Bounds: the datagrams that wait in the socket and the peers that wait in
\* the connect queue.
MaxDatagrams == 2
MaxPending == 1

\* Handshake::nonce and a nonce that is not it.
HandshakeNonce == 10000
Nonces == {HandshakeNonce, 7}
\* SharedSecret::zero() and a secret that is not it.
ZeroSecret == 0
Secrets == {ZeroSecret, 9}

\* The peers: the engine connects to A; B is a peer it never connects to.
PeerA == "A"
PeerB == "B"
Addrs == {PeerA, PeerB}

\* SessionTable: no entry for a peer.
NoEntry == [secret |-> None, nonce |-> None]
\* Session: a shared secret and the nonce expected in the reply, if any.
new_without_nonce(secret) == [secret |-> secret, nonce |-> None]
set_ready(session, nonce) == [session EXCEPT !.nonce = nonce]
is_ready(session) == session.nonce /= None
\* A session that takes any nonce for the expected one.
is_expected_nonce_any(session, nonce) == TRUE
is_expected_nonce(session, nonce) == session.nonce = nonce

\* An encryption that replaces the nonce by the nonce of the engine.
encode_and_encrypt_other_nonce(session, nonce) ==
    [key |-> session.secret, nonce |-> HandshakeNonce]
\* The nonce encrypted under the secret of the session.
encode_and_encrypt_nonce(session, nonce) ==
    [key |-> session.secret, nonce |-> nonce]
\* Decryption fails under another secret than the one used to encrypt.
decrypt_and_decode_nonce(session, encrypted) ==
    IF encrypted.key = session.secret
    THEN [ok |-> TRUE, nonce |-> encrypted.nonce]
    ELSE [ok |-> FALSE, nonce |-> None]

\* What a peer can have encrypted: either nonce under the secret of the
\* session, or the nonce of the engine under another secret.
Encrypted ==
    {e \in [key : Secrets, nonce : Nonces] :
        e.key /= ZeroSecret => e.nonce = HandshakeNonce}

\* HandshakeMessageBody (the sequence number of a message is always 0).
connection_request(seq, nonce) == [type |-> "ConnectionRequest", nonce |-> nonce]
connection_allowed(seq, nonce) == [type |-> "ConnectionAllowed", nonce |-> nonce]
ConnectionDenied == [type |-> "ConnectionDenied"]
\* EcdhRequest and EcdhAllowed, whose branches are the same.
EcdhRequest == [type |-> "EcdhRequest"]
EcdhDenied == [type |-> "EcdhDenied"]
Bodies ==
    {connection_request(0, e) : e \in Encrypted}
        \cup {connection_allowed(0, e) : e \in Encrypted}
        \cup {ConnectionDenied, EcdhRequest, EcdhDenied}
\* Bytes that are not the RLP of a handshake message.
Garbage == [type |-> "garbage"]

\* What recv_from gives: a datagram of a peer, or an error of the socket.
\* Every datagram of B stands for all of them: B never has a session.
IoErrorItem == [from |-> "", bytes |-> [type |-> "io error"]]
Datagrams ==
    [from : {PeerA}, bytes : Bodies \cup {Garbage}]
        \cup [from : {PeerB},
              bytes : {connection_allowed(0,
                          [key |-> ZeroSecret, nonce |-> HandshakeNonce])}]
        \cup {IoErrorItem}

\* connection::HandlerMessage, the messages to the connection layer.
RegisterSession(from, session) ==
    [type |-> "RegisterSession", peer |-> from, session |-> session]
RequestConnection(from, session) ==
    [type |-> "RequestConnection", peer |-> from, session |-> session]
\* Nothing emitted, nothing sent.
NoMessage == [type |-> "none"]

\* Handshake::send_to; the socket sends the whole message or fails.
send_to(tbl, message, target, send_ok) ==
    IF tbl[target] = NoEntry THEN [result |-> "NoSession", sent |-> NoMessage]
    ELSE IF ~send_ok THEN [result |-> "IoError", sent |-> NoMessage]
    ELSE [result |-> "Ok", sent |-> [to |-> target, message |-> message]]

\* A ping that is sent without the session being made ready.
send_ping_to_without_ready(tbl, target, nonce, send_ok) ==
    LET s == send_to(tbl,
                     connection_request(0,
                         encode_and_encrypt_nonce(tbl[target], nonce)),
                     target, send_ok)
    IN  [result |-> s.result, sent |-> s.sent, table |-> tbl]

\* Handshake::send_ping_to: the session is made ready before the send.
send_ping_to(tbl, target, nonce, send_ok) ==
    IF tbl[target] = NoEntry
    THEN [result |-> "NoSession", sent |-> NoMessage, table |-> tbl]
    ELSE LET ready == [tbl EXCEPT ![target] = set_ready(@, nonce)]
             s == send_to(ready,
                          connection_request(0,
                              encode_and_encrypt_nonce(ready[target], nonce)),
                          target, send_ok)
         IN  [result |-> s.result, sent |-> s.sent, table |-> ready]

\* Handshake::receive for an item the socket holds.
receive(tbl, item) ==
    IF item = IoErrorItem THEN "IoError"
    ELSE IF tbl[item.from] = NoEntry THEN "NoSession"
    ELSE IF item.bytes = Garbage THEN "RlpError"
    ELSE "Ok"

\* Handshake::on_packet; ext_ok and send_ok tell whether the send to the
\* connection layer and the send on the socket succeed.
on_packet(tbl, body, from, ext_ok, send_ok) ==
    LET session == tbl[from]
        Quiet(result) == [result |-> result, emit |-> NoMessage,
                          sent |-> NoMessage, table |-> tbl, panic |-> FALSE]
    IN  CASE body.type = "ConnectionRequest" ->
               IF session = NoEntry THEN Quiet("NoSession")
               ELSE LET d == decrypt_and_decode_nonce(session, body.nonce) IN
                    IF ~d.ok THEN Quiet("SessionError")
                    ELSE IF ~ext_ok THEN Quiet("ChannelError")
                    ELSE LET pong == connection_allowed(0,
                                encode_and_encrypt_nonce(session, d.nonce))
                             s == send_to(tbl, pong, from, send_ok)
                         IN  [result |-> s.result,
                              emit |-> RegisterSession(from, session),
                              sent |-> s.sent, table |-> tbl, panic |-> FALSE]
          [] body.type = "ConnectionAllowed" ->
               IF session = NoEntry THEN Quiet("NoSession")
               ELSE IF ~is_ready(session) THEN Quiet("NotReady")
               ELSE LET d == decrypt_and_decode_nonce(session, body.nonce) IN
                    IF ~d.ok THEN Quiet("SessionError")
                    ELSE IF ~is_expected_nonce(session, d.nonce)
                    THEN Quiet("UnexpectedNonce")
                    ELSE IF ~ext_ok THEN Quiet("ChannelError")
                    ELSE [result |-> "Ok",
                          emit |-> RequestConnection(from, session),
                          sent |-> NoMessage, table |-> tbl, panic |-> FALSE]
          [] body.type = "ConnectionDenied" -> Quiet("Ok")
          [] body.type = "EcdhDenied" -> Quiet("Ok")
          [] body.type = "EcdhRequest" ->
               [Quiet("panic") EXCEPT !.panic = TRUE]

\* No iteration yet.
NoStep == [op |-> "none"]

\* Handler::new: the socket is bound, the table and the queue are empty.
InitHandshake ==
    /\ hs_table = [a \in Addrs |-> NoEntry]
    /\ connect_queue = <<>>
    /\ socket_in = <<>>
    /\ hs_reading = FALSE
    /\ hs_panic = FALSE
    /\ hs_last = NoStep
    /\ hs_denied = [a \in Addrs |-> FALSE]
    /\ hs_registered = [a \in Addrs |-> 0]

InitHs ==
    InitVC /\ InitIdleDB /\ InitIdleNet /\ InitIdleRm /\ InitHandshake

\* Handler::message(ConnectTo(address)).
HsConnectTo(address) ==
    /\ ~hs_panic
    /\ Len(connect_queue) < MaxPending
    /\ connect_queue' = Append(connect_queue, address)
    /\ hs_table' = [hs_table EXCEPT ![address] = new_without_nonce(ZeroSecret)]
    /\ hs_last' = NoStep
    /\ UNCHANGED <<socket_in, hs_reading, hs_panic, hs_denied, hs_registered>>
    /\ UNCHANGED nonhs

\* One iteration of the loop of Handler::stream_writable that finds a peer in
\* the queue: connect_to, whose result is dropped.
HsWritable(send_ok) ==
    /\ ~hs_panic
    /\ connect_queue /= <<>>
    /\ LET target == Head(connect_queue)
           r == send_ping_to(hs_table, target, HandshakeNonce, send_ok)
       IN  /\ connect_queue' = Tail(connect_queue)
           /\ hs_table' = r.table
           /\ hs_last' = [op |-> "connect_to", target |-> target,
                          result |-> r.result, sent |-> r.sent]
           /\ hs_denied' = [hs_denied EXCEPT ![target] = FALSE]
    /\ UNCHANGED <<socket_in, hs_reading, hs_panic, hs_registered>>
    /\ UNCHANGED nonhs

\* A datagram arrives at the socket, or an error of the socket is pending.
HsArrive(item) ==
    /\ Len(socket_in) < MaxDatagrams
    /\ socket_in' = Append(socket_in, item)
    /\ hs_last' = NoStep
    /\ UNCHANGED <<hs_table, connect_queue, hs_reading, hs_panic, hs_denied,
                   hs_registered>>
    /\ UNCHANGED nonhs

\* Handler::stream_readable is called for RECV_TOKEN and enters its loop.
HsReadable ==
    /\ ~hs_panic
    /\ ~hs_reading
    /\ hs_reading' = TRUE
    /\ hs_last' = NoStep
    /\ UNCHANGED <<hs_table, connect_queue, socket_in, hs_panic, hs_denied, hs_registered>>
    /\ UNCHANGED nonhs

\* A loop that is left on the first error.
loop_breaks_on_error(r) == ~r.panic /\ r.result = "Ok"
\* The loop of stream_readable after an iteration with an item: no arm of the
\* match breaks, whatever receive and on_packet return; a panic ends the call.
loop_continues(r) == ~r.panic

\* One iteration of the loop of stream_readable on a socket that holds
\* something: receive and, for a message, on_packet, whose result is dropped.
HsReceive(ext_ok, send_ok) ==
    /\ ~hs_panic
    /\ hs_reading
    /\ socket_in /= <<>>
    /\ LET item == Head(socket_in)
           got == receive(hs_table, item)
           r == IF got = "Ok"
                THEN on_packet(hs_table, item.bytes, item.from, ext_ok, send_ok)
                ELSE [result |-> got, emit |-> NoMessage, sent |-> NoMessage,
                      table |-> hs_table, panic |-> FALSE]
       IN  /\ socket_in' = Tail(socket_in)
           /\ hs_table' = r.table
           /\ hs_panic' = r.panic
           /\ hs_reading' = loop_continues(r)
           /\ hs_last' = [op |-> "receive", item |-> item, result |-> r.result,
                          emit |-> r.emit, sent |-> r.sent]
           /\ hs_denied' =
                 IF got = "Ok" /\ item.bytes = ConnectionDenied
                 THEN [hs_denied EXCEPT ![item.from] = TRUE]
                 ELSE hs_denied
           /\ hs_registered' =
                 IF r.emit.type = "RegisterSession" /\ hs_registered[item.from] < 2
                 THEN [hs_registered EXCEPT ![item.from] = @ + 1]
                 ELSE hs_registered
    /\ UNCHANGED connect_queue
    /\ UNCHANGED nonhs

\* The iteration of the loop of stream_readable in which recv_from reports
\* WouldBlock: receive gives Ok(None) and the loop breaks.
HsWouldBlock ==
    /\ ~hs_panic
    /\ hs_reading
    /\ socket_in = <<>>
    /\ hs_reading' = FALSE
    /\ hs_last' = [op |-> "would_block"]
    /\ UNCHANGED <<hs_table, connect_queue, socket_in, hs_panic, hs_denied, hs_registered>>
    /\ UNCHANGED nonhs

NextHs ==
    \/ \E address \in {PeerA} : HsConnectTo(address)
    \/ \E send_ok \in BOOLEAN : HsWritable(send_ok)
    \/ \E item \in Datagrams : HsArrive(item)
    \/ HsReadable
    \/ \E ext_ok \in BOOLEAN, send_ok \in BOOLEAN : HsReceive(ext_ok, send_ok)
    \/ HsWouldBlock

SpecHs == InitHs /\ [][NextHs]_vars

(***************************************************************************)
(* Properties of the handshake engine (SpecHs).                            *)
(***************************************************************************)
\* The step is an iteration of stream_writable that connects to a peer.
IsConnectStep ==
    /\ connect_queue /= <<>> /\ connect_queue' = Tail(connect_queue)
    /\ hs_last'.op = "connect_to"
\* The step is an iteration of stream_readable that takes an item from the
\* socket.
IsReceiveStep ==
    /\ socket_in /= <<>> /\ socket_in' = Tail(socket_in)
    /\ hs_last'.op = "receive"
\* The item the socket holds first is the body, from peer.
NextIs(peer, body) ==
    /\ socket_in /= <<>>
    /\ Head(socket_in) = [from |-> peer, bytes |-> body]
\* The nonce of the engine as the session of peer encrypts it.
Ping(peer) == encode_and_encrypt_nonce(hs_table'[peer], HandshakeNonce)
Pong(peer) == encode_and_encrypt_nonce(hs_table[peer], HandshakeNonce)

\* C22: after connect_to(A) and a writable event the session of A is ready
\* and expects the nonce of the engine, and a ConnectionRequest with that
\* nonce, encrypted under the secret of the session, has been sent to A
\* (unless the socket failed); when a ConnectionAllowed of A with the same
\* nonce is then received, RequestConnection(A, session) is emitted to the
\* connection layer (unless its channel failed).
PingThenPongRequestsConnection ==
    [][/\ IsConnectStep =>
            LET target == Head(connect_queue) IN
            /\ hs_last'.target = target
            /\ is_ready(hs_table'[target])
            /\ is_expected_nonce(hs_table'[target], HandshakeNonce)
            /\ hs_last'.result \in {"Ok", "IoError"}
            /\ hs_last'.result = "Ok" =>
                  hs_last'.sent =
                     [to |-> target,
                      message |-> connection_request(0, Ping(target))]
            /\ hs_last'.result /= "Ok" => hs_last'.sent = NoMessage
       /\ \A peer \in Addrs :
            /\ IsReceiveStep
            /\ NextIs(peer, connection_allowed(0, Pong(peer)))
            /\ is_expected_nonce(hs_table[peer], HandshakeNonce)
            => /\ hs_last'.result \in {"Ok", "ChannelError"}
               /\ hs_last'.result = "Ok" =>
                     hs_last'.emit = RequestConnection(peer, hs_table[peer])]_vars

\* The engine has emitted RequestConnection for A, whose session expects the
\* nonce of the engine.
C22Witness ==
    /\ hs_last.op = "receive"
    /\ hs_last.result = "Ok"
    /\ hs_last.emit = RequestConnection(PeerA, hs_table[PeerA])
    /\ is_expected_nonce(hs_table[PeerA], HandshakeNonce)

\* The step receives a ConnectionAllowed of peer, who has a session.
ReceivesAllowed(peer) ==
    /\ IsReceiveStep
    /\ Head(socket_in).from = peer
    /\ Head(socket_in).bytes.type = "ConnectionAllowed"
    /\ hs_table[peer] /= NoEntry
\* The nonce the ConnectionAllowed the socket holds first carries, as far as
\* the session of its sender can decrypt it.
AllowedNonce ==
    IF Head(socket_in).bytes.nonce.key = hs_table[Head(socket_in).from].secret
    THEN Head(socket_in).bytes.nonce.nonce
    ELSE None

\* C23: a received ConnectionAllowed makes the engine emit RequestConnection
\* only when the session of the sender is ready and the decrypted nonce is
\* the one the session expects; a session that is not ready gives NotReady, a
\* ready session and another nonce give UnexpectedNonce, and in both cases
\* nothing is emitted or sent and the session table is unchanged.
AllowedNeedsReadyAndNonce ==
    [][\A peer \in Addrs : ReceivesAllowed(peer) =>
          LET session == hs_table[peer] IN
          /\ hs_last'.emit.type = "RequestConnection" =>
                /\ session.nonce /= None
                /\ session.nonce = AllowedNonce
                /\ hs_last'.emit = RequestConnection(peer, session)
          /\ session.nonce = None => hs_last'.result = "NotReady"
          /\ (session.nonce /= None /\ AllowedNonce /= None
                 /\ session.nonce /= AllowedNonce)
                => hs_last'.result = "UnexpectedNonce"
          /\ hs_last'.result \in {"NotReady", "UnexpectedNonce"} =>
                /\ hs_last'.emit = NoMessage
                /\ hs_last'.sent = NoMessage
          /\ hs_table' = hs_table]_vars

\* A ConnectionAllowed with a nonce the ready session of A does not expect has
\* been refused.
C23Witness ==
    /\ hs_last.op = "receive"
    /\ hs_last.item.from = PeerA
    /\ hs_last.item.bytes.type = "ConnectionAllowed"
    /\ hs_last.result = "UnexpectedNonce"
    /\ hs_last.emit = NoMessage
    /\ is_ready(hs_table[PeerA])

\* The step receives a ConnectionRequest of peer, who has a session that
\* decrypts its nonce.
ReceivesRequest(peer) ==
    /\ IsReceiveStep
    /\ Head(socket_in).from = peer
    /\ Head(socket_in).bytes.type = "ConnectionRequest"
    /\ hs_table[peer] /= NoEntry
    /\ Head(socket_in).bytes.nonce.key = hs_table[peer].secret

\* C24: a ConnectionRequest of a peer that has a session makes the engine
\* emit RegisterSession(peer, session) and reply to the peer with a
\* ConnectionAllowed that carries the nonce of the request, whether or not the
\* session is ready and whether or not the peer has been registered before;
\* the session table is unchanged, so a second request is processed as the
\* first.  (A failing channel emits nothing and sends nothing; a failing
\* socket sends nothing after the emission.)
RequestRegistersAndEchoesNonce ==
    /\ [][\A peer \in Addrs : ReceivesRequest(peer) =>
            LET session == hs_table[peer]
                request == Head(socket_in).bytes
            IN  /\ hs_last'.result \in {"Ok", "ChannelError", "IoError"}
                /\ hs_last'.result /= "ChannelError" =>
                      hs_last'.emit = RegisterSession(peer, session)
                /\ hs_last'.result = "ChannelError" =>
                      hs_last'.emit = NoMessage
                /\ hs_last'.result = "Ok" =>
                      /\ hs_last'.sent.to = peer
                      /\ hs_last'.sent.message.type = "ConnectionAllowed"
                      /\ hs_last'.sent.message.nonce.key = session.secret
                      /\ hs_last'.sent.message.nonce.nonce = request.nonce.nonce
                /\ hs_last'.result /= "Ok" => hs_last'.sent = NoMessage
                /\ hs_table' = hs_table]_vars
    /\ [](\A request \in Bodies, ext_ok \in BOOLEAN, send_ok \in BOOLEAN :
            request.type = "ConnectionRequest" =>
               LET first == on_packet(hs_table, request, PeerA, ext_ok, send_ok)
               IN  on_packet(first.table, request, PeerA, ext_ok, send_ok)
                      = first)

\* A second ConnectionRequest of A has been answered as the first: the session
\* has been registered twice and the reply carries the nonce of the request.
C24Witness ==
    /\ hs_registered[PeerA] = 2
    /\ hs_last.op = "receive"
    /\ hs_last.result = "Ok"
    /\ hs_last.emit = RegisterSession(PeerA, hs_table[PeerA])
    /\ hs_last.sent.message.type = "ConnectionAllowed"
    /\ hs_last.sent.message.nonce.nonce = hs_last.item.bytes.nonce.nonce

\* C25: after a ConnectionDenied of a peer has been handled, and until the
\* engine connects to that peer again, no received datagram of the peer makes
\* the engine emit RequestConnection.
DeniedAbandonsHandshake ==
    [][\A peer \in Addrs :
          /\ IsReceiveStep
          /\ Head(socket_in).from = peer
          /\ hs_denied[peer]
          => hs_last'.emit.type /= "RequestConnection"]_vars

\* The results of an iteration that are errors of receive or of on_packet.
HandshakeErrors ==
    {"NoSession", "RlpError", "IoError", "SessionError", "ChannelError",
     "NotReady", "UnexpectedNonce"}

\* As stated: the loop of stream_readable is left only when the socket
\* reports WouldBlock.
LoopStopsOnlyOnWouldBlock ==
    [][(hs_reading /\ ~hs_reading') =>
          (socket_in = <<>> /\ hs_last'.op = "would_block")]_vars

\* C26: a datagram whose source has no session gives NoSession and is dropped
\* with nothing emitted and nothing sent; an iteration that ends in a decode,
\* session or I/O error takes only its own datagram from the socket, leaves
\* the session table as it was and stays in the loop; the loop is left only
\* when the socket reports WouldBlock or when on_packet panics in a branch
\* that is not implemented.
ErrorsDropOneDatagram ==
    [][/\ IsReceiveStep =>
            LET item == Head(socket_in) IN
            /\ (item /= IoErrorItem /\ hs_table[item.from] = NoEntry) =>
                  /\ hs_last'.result = "NoSession"
                  /\ hs_last'.emit = NoMessage
                  /\ hs_last'.sent = NoMessage
            /\ item = IoErrorItem => hs_last'.result = "IoError"
            /\ (item /= IoErrorItem /\ hs_table[item.from] /= NoEntry
                   /\ item.bytes = Garbage) =>
                  /\ hs_last'.result = "RlpError"
                  /\ hs_last'.emit = NoMessage
                  /\ hs_last'.sent = NoMessage
            /\ hs_last'.result \in HandshakeErrors =>
                  /\ hs_reading'
                  /\ socket_in' = Tail(socket_in)
                  /\ hs_table' = hs_table
                  /\ connect_queue' = connect_queue
       /\ (hs_reading /\ ~hs_reading') =>
             \/ socket_in = <<>> /\ hs_last'.op = "would_block"
             \/ /\ IsReceiveStep
                /\ Head(socket_in).bytes = EcdhRequest
                /\ hs_table[Head(socket_in).from] /= NoEntry
                /\ hs_panic']_vars

\* A datagram of a peer without a session has been dropped with NoSession and
\* the loop goes on with a datagram behind it.
C26Witness ==
    /\ hs_last.op = "receive"
    /\ hs_last.item.from = PeerB
    /\ hs_last.result = "NoSession"
    /\ hs_reading
    /\ socket_in /= <<>>

(***************************************************************************)
(* The response codec of the block sync protocol                           *)
(* (sync/src/block/message/response.rs).  Bytes are numbers in 0..255; the *)
(* RLP streams and views, snappy, Header and UnverifiedTransaction are     *)
(* libraries of the codec and are computed here on byte sequences.         *)
(***************************************************************************)
MaxItems == 2
MaxBytes == 2

\* Result<T, DecoderError>.
Ok(value) == [ok |-> TRUE, value |-> value]
Err(error) == [ok |-> FALSE, error |-> error]
RlpIncorrectListLen(got, expected) ==
    [type |-> "RlpIncorrectListLen", got |-> got, expected |-> expected]
Custom(text) == [type |-> "Custom", text |-> text]
RlpExpectedToBeList == [type |-> "RlpExpectedToBeList"]
RlpExpectedToBeData == [type |-> "RlpExpectedToBeData"]
RlpIsTooShort == [type |-> "RlpIsTooShort"]
RlpInvalidIndirection == [type |-> "RlpInvalidIndirection"]

\* The sequences of at most n elements of set.
SeqsUpTo(set, n) == UNION {[1..k -> set] : k \in 0..n}
\* The concatenation of a sequence of sequences.
RECURSIVE Concat(_)
Concat(seqs) ==
    IF seqs = <<>> THEN <<>> ELSE Head(seqs) \o Concat(Tail(seqs))
\* The bytes of seq after the first n.
Drop(seq, n) == SubSeq(seq, n + 1, Len(seq))

\* MessageID of the sync protocol; the four ids of responses.
MessageIDs ==
    {"Status", "GetHeaders", "Headers", "GetBodies", "Bodies",
     "GetStateHead", "StateHead", "GetStateChunk", "StateChunk"}

\* RlpStream: a string of bytes.  A single byte below 0x80 is its own
\* encoding; up to 55 bytes follow a prefix 0x80 + length; more follow 0xb8
\* and a length byte.
append_bytes(bytes) ==
    IF Len(bytes) = 1 /\ bytes[1] < 128 THEN bytes
    ELSE IF Len(bytes) <= 55 THEN <<128 + Len(bytes)>> \o bytes
    ELSE <<184, Len(bytes)>> \o bytes
\* RlpStream: a list of encoded items, with a prefix 0xc0 + length of the
\* payload, or 0xf8 and a length byte.
append_items(items) ==
    LET payload == Concat(items) IN
    IF Len(payload) <= 55 THEN <<192 + Len(payload)>> \o payload
    ELSE <<248, Len(payload)>> \o payload
\* An unsigned integer below 256: its big-endian bytes without leading zeros.
append_uint(n) == append_bytes(IF n = 0 THEN <<>> ELSE <<n>>)

\* Rlp: the prefix of the item that starts the bytes: whether it is a list,
\* the length of the prefix and of the payload.
PayloadInfo(bytes) ==
    IF bytes = <<>> THEN Err(RlpIsTooShort)
    ELSE LET b == bytes[1]
             Info(list, header, len) ==
                 IF Len(bytes) < header + len THEN Err(RlpIsTooShort)
                 ELSE Ok([list |-> list, header |-> header, len |-> len])
         IN  IF b < 128 THEN Info(FALSE, 0, 1)
             ELSE IF b <= 183 THEN
                 IF b = 129 /\ Len(bytes) >= 2 /\ bytes[2] < 128
                 THEN Err(RlpInvalidIndirection)
                 ELSE Info(FALSE, 1, b - 128)
             ELSE IF b = 184 THEN
                 IF Len(bytes) < 2 THEN Err(RlpIsTooShort)
                 ELSE IF bytes[2] <= 55 THEN Err(RlpInvalidIndirection)
                 ELSE Info(FALSE, 2, bytes[2])
             ELSE IF b < 192 THEN Err(RlpIsTooShort)
             ELSE IF b <= 247 THEN Info(TRUE, 1, b - 192)
             ELSE IF b = 248 THEN
                 IF Len(bytes) < 2 THEN Err(RlpIsTooShort)
                 ELSE IF bytes[2] <= 55 THEN Err(RlpInvalidIndirection)
                 ELSE Info(TRUE, 2, bytes[2])
             ELSE Err(RlpIsTooShort)
\* The payload of the item that starts the bytes.
Payload(bytes) ==
    LET info == PayloadInfo(bytes).value IN
    SubSeq(bytes, info.header + 1, info.header + info.len)
\* The items a payload holds, as far as they are well formed.
RECURSIVE PayloadItems(_)
PayloadItems(payload) ==
    IF payload = <<>> \/ ~PayloadInfo(payload).ok THEN <<>>
    ELSE LET info == PayloadInfo(payload).value
             size == info.header + info.len
         IN  <<SubSeq(payload, 1, size)>> \o PayloadItems(Drop(payload, size))
\* Rlp::iter: the items of a list; a view that is no list has none.
iter(rlp) ==
    IF PayloadInfo(rlp).ok /\ PayloadInfo(rlp).value.list
    THEN PayloadItems(Payload(rlp))
    ELSE <<>>
\* A count that takes every view for a list of one item.
item_count_always_one(rlp) == Ok(1)
\* Rlp::item_count.
item_count(rlp) ==
    IF ~PayloadInfo(rlp).ok THEN Err(PayloadInfo(rlp).error)
    ELSE IF ~PayloadInfo(rlp).value.list THEN Err(RlpExpectedToBeList)
    ELSE Ok(Len(iter(rlp)))
\* Rlp::at, counting from 0.
at(rlp, index) ==
    IF ~PayloadInfo(rlp).ok THEN Err(PayloadInfo(rlp).error)
    ELSE IF ~PayloadInfo(rlp).value.list THEN Err(RlpExpectedToBeList)
    ELSE IF index >= Len(iter(rlp)) THEN Err(RlpIsTooShort)
    ELSE Ok(iter(rlp)[index + 1])
\* Decodable for Vec<u8>: the payload of a string.
as_bytes(rlp) ==
    IF ~PayloadInfo(rlp).ok THEN Err(PayloadInfo(rlp).error)
    ELSE IF PayloadInfo(rlp).value.list THEN Err(RlpExpectedToBeData)
    ELSE Ok(Payload(rlp))
\* Decodable for an unsigned integer below 256.
as_uint(rlp) ==
    LET bytes == as_bytes(rlp) IN
    IF ~bytes.ok THEN bytes
    ELSE IF bytes.value = <<>> THEN Ok(0)
    ELSE IF Len(bytes.value) > 1 THEN Err([type |-> "RlpIsTooBig"])
    ELSE IF bytes.value[1] = 0 THEN Err([type |-> "RlpInvalidIndirection"])
    ELSE Ok(bytes.value[1])
\* Rlp::as_list with the decoder of the items: the first error, or the values.
as_list(rlp, Decode(_)) ==
    LET items == iter(rlp)
        results == [i \in 1..Len(items) |-> Decode(items[i])]
        failed == {i \in 1..Len(items) : ~results[i].ok}
    IN  IF failed /= {}
        THEN results[CHOOSE i \in failed : \A j \in failed : i <= j]
        ELSE Ok([i \in 1..Len(items) |-> results[i].value])

\* A compression that leaves out the length of the input.
compress_vec_without_length(input) ==
    IF input = <<>> THEN <<>> ELSE <<(Len(input) - 1) * 4>> \o input
\* snap::Encoder::compress_vec for an input of fewer than 61 bytes in which
\* the encoder finds nothing to copy: the length of the input, then one
\* literal element (a tag and the bytes).
compress_vec(input) ==
    <<Len(input)>> \o
        (IF input = <<>> THEN <<>> ELSE <<(Len(input) - 1) * 4>> \o input)
\* snap::Decoder::decompress_vec for literal elements.
decompress_vec(compressed) ==
    IF compressed = <<>> \/ compressed[1] >= 128 THEN Err("Header")
    ELSE IF compressed[1] = 0
    THEN IF Len(compressed) = 1 THEN Ok(<<>>) ELSE Err("HeaderMismatch")
    ELSE IF Len(compressed) < 2 \/ compressed[2] % 4 /= 0
              \/ compressed[2] \div 4 + 1 /= compressed[1]
              \/ Len(compressed) /= 2 + compressed[1]
    THEN Err("Literal")
    ELSE Ok(Drop(compressed, 2))

\* Header, as far as its number; UnverifiedTransaction, as far as the seq and
\* the fee of its transaction.
HeaderNumbers == {0, 1}
Header == [number : HeaderNumbers]
UnverifiedTransaction == [seq : {0, 1}, fee : {10}]
header_rlp(header) == append_items(<<append_uint(header.number)>>)
transaction_rlp(tx) == append_items(<<append_uint(tx.seq), append_uint(tx.fee)>>)
header_decode(rlp) ==
    LET n_items == item_count(rlp) IN
    IF ~n_items.ok THEN n_items
    ELSE IF n_items.value /= 1 THEN Err(RlpIncorrectListLen(n_items.value, 1))
    ELSE LET number == as_uint(at(rlp, 0).value) IN
         IF ~number.ok THEN number ELSE Ok([number |-> number.value])
transaction_decode(rlp) ==
    LET n_items == item_count(rlp) IN
    IF ~n_items.ok THEN n_items
    ELSE IF n_items.value /= 2 THEN Err(RlpIncorrectListLen(n_items.value, 2))
    ELSE LET seq == as_uint(at(rlp, 0).value)
             fee == as_uint(at(rlp, 1).value)
         IN  IF ~seq.ok THEN seq
             ELSE IF ~fee.ok THEN fee
             ELSE Ok([seq |-> seq.value, fee |-> fee.value])
\* RlpStream::append_list and Rlp::as_list for headers and transactions.
append_list(values, Encode(_)) ==
    append_items([i \in 1..Len(values) |-> Encode(values[i])])
body_decode(rlp) == as_list(rlp, transaction_decode)

\* ResponseMessage.
ResponseHeaders(headers) == [type |-> "Headers", headers |-> headers]
ResponseBodies(bodies) == [type |-> "Bodies", bodies |-> bodies]
StateHead(bytes) == [type |-> "StateHead", bytes |-> bytes]
StateChunk(bytes) == [type |-> "StateChunk", bytes |-> bytes]
ByteValues == {5, 200}
ByteVecs == SeqsUpTo(ByteValues, MaxBytes)
ResponseMessages ==
    {ResponseHeaders(h) : h \in SeqsUpTo(Header, MaxItems)}
        \cup {ResponseBodies(b) :
                b \in SeqsUpTo(SeqsUpTo(UnverifiedTransaction, MaxItems),
                               MaxItems)}
        \cup {StateHead(b) : b \in ByteVecs}
        \cup {StateChunk(b) : b \in ByteVecs}

\* ResponseMessage::message_id.
message_id(m) == m.type

\* Encodable for ResponseMessage (rlp_append), as the bytes of rlp_bytes.
rlp_bytes(m) ==
    CASE m.type = "Headers" -> append_list(m.headers, header_rlp)
      [] m.type = "Bodies" ->
           LET body_rlp(body) == append_list(body, transaction_rlp)
               uncompressed == append_list(m.bodies, body_rlp)
               compressed == compress_vec(uncompressed)
           IN  append_items(<<append_bytes(compressed)>>)
      [] m.type = "StateHead" -> append_items(<<append_bytes(m.bytes)>>)
      [] m.type = "StateChunk" -> append_items(<<append_bytes(m.bytes)>>)

\* The check of the variants that are a list of one item.
OneItem(rlp) ==
    LET n_items == item_count(rlp) IN
    IF ~n_items.ok THEN n_items
    ELSE IF n_items.value /= 1 THEN Err(RlpIncorrectListLen(n_items.value, 1))
    ELSE LET item == at(rlp, 0) IN
         IF ~item.ok THEN item ELSE as_bytes(item.value)

\* ResponseMessage::decode.
decode(id, rlp) ==
    CASE id = "Headers" ->
           LET headers == as_list(rlp, header_decode) IN
           IF ~headers.ok THEN headers ELSE Ok(ResponseHeaders(headers.value))
      [] id = "Bodies" ->
           LET compressed == OneItem(rlp) IN
           IF ~compressed.ok THEN compressed
           ELSE LET uncompressed == decompress_vec(compressed.value) IN
                IF ~uncompressed.ok
                THEN Err(Custom("Invalid compression format"))
                ELSE LET bodies == as_list(uncompressed.value, body_decode) IN
                     IF ~bodies.ok THEN bodies
                     ELSE Ok(ResponseBodies(bodies.value))
      [] id = "StateHead" ->
           LET bytes == OneItem(rlp) IN
           IF ~bytes.ok THEN bytes ELSE Ok(StateHead(bytes.value))
      [] id = "StateChunk" ->
           LET bytes == OneItem(rlp) IN
           IF ~bytes.ok THEN bytes ELSE Ok(StateChunk(bytes.value))
      [] OTHER -> Err(Custom("Unknown message id detected"))

\* What a peer can put on the wire without the encoder: a list of strings or
\* of lists, or a string.
RawItems == {append_bytes(<<5>>), append_items(<<>>)}
RawList(items) == [type |-> "raw list", items |-> items]
RawData == [type |-> "raw data"]
RawMessages == {RawList(items) : items \in SeqsUpTo(RawItems, MaxItems)}
                  \cup {RawData}
raw_bytes(raw) ==
    IF raw = RawData THEN append_bytes(<<5, 200>>) ELSE append_items(raw.items)

\* Nothing was decoded yet.
NoResult == [ok |-> FALSE, error |-> [type |-> "none"]]

InitResponse ==
    /\ rm_pc = "idle"
    /\ rm_msg = [type |-> "none"]
    /\ rm_id = ""
    /\ rm_bytes = <<>>
    /\ rm_out = NoResult

InitRm ==
    InitVC /\ InitIdleDB /\ InitIdleNet /\ InitIdleHs /\ InitResponse

\* A node encodes the response m and sends it with its message id.
RmEncode(m) ==
    /\ rm_pc = "idle"
    /\ rm_msg' = m
    /\ rm_id' = message_id(m)
    /\ rm_bytes' = rlp_bytes(m)
    /\ rm_pc' = "wire"
    /\ UNCHANGED rm_out
    /\ UNCHANGED nonrm

\* A peer sends bytes of its own making with any message id.
RmForge(id, raw) ==
    /\ rm_pc = "idle"
    /\ rm_msg' = raw
    /\ rm_id' = id
    /\ rm_bytes' = raw_bytes(raw)
    /\ rm_pc' = "wire"
    /\ UNCHANGED rm_out
    /\ UNCHANGED nonrm

\* The receiver calls ResponseMessage::decode on what the wire holds.
RmDecode ==
    /\ rm_pc = "wire"
    /\ rm_out' = decode(rm_id, rm_bytes)
    /\ rm_pc' = "decoded"
    /\ UNCHANGED <<rm_msg, rm_id, rm_bytes>>
    /\ UNCHANGED nonrm

NextRm ==
    \/ \E m \in ResponseMessages : RmEncode(m)
    \/ \E id \in MessageIDs, raw \in RawMessages : RmForge(id, raw)
    \/ RmDecode

SpecRm == InitRm /\ [][NextRm]_vars

(***************************************************************************)
(* Properties of the response codec (SpecRm).                              *)
(***************************************************************************)
ResponseIDs == {"Headers", "Bodies", "StateHead", "StateChunk"}

\* C27: for every ResponseMessage m of each of the four variants, bodies with
\* empty transaction lists included, decoding the bytes of m under the
\* message id of m succeeds and gives m.
RoundTrip ==
    (rm_pc = "decoded" /\ rm_msg.type \in ResponseIDs) =>
        /\ rm_id = rm_msg.type
        /\ rm_out = Ok(rm_msg)

\* Bodies of which one has no transaction and one has two have come back from
\* the wire.
C27Witness ==
    /\ rm_pc = "decoded"
    /\ rm_msg.type = "Bodies"
    /\ Len(rm_msg.bodies) = 2
    /\ rm_msg.bodies[1] = <<>>
    /\ Len(rm_msg.bodies[2]) = 2
    /\ rm_out.ok
    /\ rm_out.value = rm_msg

\* C28: decoding under the ids Bodies, StateHead and StateChunk a list that
\* does not hold exactly one item fails with RlpIncorrectListLen, got the
\* number of items and expected 1; decoding under an id that is not one of the
\* four response ids fails with the unknown message id error; in both cases
\* no message is returned.
WrongLengthOrIdFails ==
    rm_pc = "decoded" =>
        /\ (/\ rm_id \in {"Bodies", "StateHead", "StateChunk"}
            /\ rm_msg.type = "raw list"
            /\ Len(rm_msg.items) /= 1)
              => rm_out = Err(RlpIncorrectListLen(Len(rm_msg.items), 1))
        /\ rm_id \notin ResponseIDs =>
              rm_out = Err(Custom("Unknown message id detected"))

\* A list of two items has been refused under the id Bodies.
C28Witness ==
    /\ rm_pc = "decoded"
    /\ rm_id = "Bodies"
    /\ rm_msg.type = "raw list"
    /\ Len(rm_msg.items) = 2
    /\ ~rm_out.ok
    /\ rm_out.error = RlpIncorrectListLen(2, 1)

(***************************************************************************)
(* Further properties of the vote collector (SpecVC).                      *)
(***************************************************************************)
\* The step is a call of throw_out_old whose assertion held.
IsThrowStep == vop'.op = "throw_out_old" /\ ~vpanic /\ ~vpanic'

ThrowKeepsNotOlder ==
    /\ [](DOMAIN votes /= {})
    /\ [][(vop'.op = "throw_out_old" /\ ~vpanic) =>
            LET kept == {k \in DOMAIN votes : k >= vop'.round} IN
            /\ vpanic' <=> kept = {}
            /\ ~vpanic' =>
                  /\ DOMAIN votes' = kept
                  /\ \A k \in kept : votes'[k] = votes[k]]_vars

\* throw_out_old has dropped a round that held a message and kept a round
\* that holds one.
C30Witness ==
    /\ vop.op = "throw_out_old"
    /\ ~vpanic
    /\ \E k \in Rounds \X Signers :
          lastBy[k].pruned /\ k[1] < vop.round /\ k[1] \notin DOMAIN votes
    /\ \E m \in Messages : Stored(votes, m) /\ m.round >= vop.round

\* C31: round_signatures_and_indices(r, h) returns two lists of the same
\* length; the indices are strictly ascending and are the signers that
\* block_round_votes(r, Some(h)) counts; the i-th signature is the signature
\* of a stored message of round r for h by the i-th index; both lists are
\* empty when the round or the hash is not known.
SignaturesMatchIndices ==
    \A r \in Rounds : \A h \in BlockHashes \ {None} :
        LET res == round_signatures_and_indices(votes, r, h) IN
        /\ Len(res.sigs) = Len(res.indices)
        /\ \A i, j \in DOMAIN res.indices :
              i < j => res.indices[i] < res.indices[j]
        /\ {res.indices[i] : i \in DOMAIN res.indices}
              = block_round_votes(votes, r, h)
        /\ \A i \in DOMAIN res.indices :
              \E m \in Messages :
                  /\ Stored(votes, m)
                  /\ m.round = r /\ m.block_hash = h
                  /\ m.signer_index = res.indices[i]
                  /\ m.signature = res.sigs[i]
        /\ (r \notin DOMAIN votes
               \/ ~\E m \in Messages :
                     Stored(votes, m) /\ m.round = r /\ m.block_hash = h)
              => res = [sigs |-> <<>>, indices |-> <<>>]

\* Two signers have voted for one block at round 1 with different signatures,
\* and the two lists hold both.
C31Witness ==
    LET res == round_signatures_and_indices(votes, 1, 11) IN
    /\ Len(res.indices) = 2
    /\ res.sigs[1] /= res.sigs[2]

\* C32: every DoubleVote that vote returns holds two different messages of
\* the same round whose signer is author_index; vote_one was stored in the
\* collector before the call and vote_two is the message of the call, which
\* the call stores.
DoubleVoteIsValid ==
    [][(IsVoteStep /\ vret'.some) =>
          /\ vret'.vote_one /= vret'.vote_two
          /\ vret'.vote_one.round = vret'.vote_two.round
          /\ vret'.vote_one.signer_index = vret'.author_index
          /\ vret'.vote_two.signer_index = vret'.author_index
          /\ vret'.vote_two = vop'.message
          /\ Stored(votes, vret'.vote_one)
          /\ ~Stored(votes, vret'.vote_two)
          /\ Stored(votes', vret'.vote_one)
          /\ Stored(votes', vret'.vote_two)]_vars

\* vote has returned a DoubleVote of two messages for the same block that
\* differ in their signatures, after a throw_out_old that kept their round.
C32Witness ==
    /\ vop.op = "vote"
    /\ vret.some
    /\ vret.vote_one.block_hash = vret.vote_two.block_hash
    /\ vret.vote_one.signature /= vret.vote_two.signature
    /\ thrown /= None
    /\ Stored(votes, vret.vote_one)
    /\ Stored(votes, vret.vote_two)

(***************************************************************************)
(* Further properties of sync_cache under any caller (SpecCalls).          *)
(***************************************************************************)
\* The hashes of a list of blocks.
Range(blocks) == {blocks[i] : i \in 1..Len(blocks)}
\* The enacted hashes sync_cache looks at: all but the commit_hash of the
\* handle (line 157).
EnactedSeen(c) ==
    Range(c.enacted) \ (IF c.handle.commit_hash = None THEN {}
                        ELSE {c.handle.commit_hash})
\* The entries of modifications with the hash.
EntriesOf(mods, hash) == {i \in 1..Len(mods) : mods[i].hash = hash}

\* C33: in a sync_cache that does not wipe, every enacted hash other than the
\* block the handle commits is in modifications and ends with is_canon true,
\* every retracted hash is in modifications and ends with is_canon false, the
\* BlockChanges added for the block the handle commits has is_canon equal to
\* is_best, and every other entry keeps its flag.
SyncFlagsRoute ==
    [][(IsSyncStep /\ ~call'.clear) =>
          LET h == call'.handle
              added == IF Committing(h) THEN {h.commit_hash} ELSE {}
          IN  /\ \A b \in EnactedSeen(call') \cup Range(call'.retracted) :
                    EntriesOf(modifications, b) /= {}
              /\ \A i \in 1..Len(modifications') :
                    LET m == modifications'[i] IN
                    IF m.hash \in added /\ EntriesOf(modifications, m.hash) = {}
                    THEN m.is_canon = call'.is_best
                    ELSE IF m.hash \in EnactedSeen(call') THEN m.is_canon
                    ELSE IF m.hash \in Range(call'.retracted) THEN ~m.is_canon
                    ELSE \E j \in EntriesOf(modifications, m.hash) :
                            m = modifications[j]
              /\ Committing(h) => EntriesOf(modifications', h.commit_hash) /= {}]_vars

\* A sync_cache that wiped nothing has enacted one block of modifications,
\* retracted another and added the block of the handle as not canonical.
C33Witness ==
    /\ call.op = "sync_cache"
    /\ ~call.clear
    /\ Len(call.enacted) = 1
    /\ Len(call.retracted) = 1
    /\ Committing(call.handle)
    /\ ~call.is_best
    /\ Len(modifications) = 3
    /\ \E i, j, k \in 1..3 :
          /\ modifications[i].hash = call.enacted[1] /\ modifications[i].is_canon
          /\ modifications[j].hash = call.retracted[1]
          /\ ~modifications[j].is_canon
          /\ modifications[k].hash = call.handle.commit_hash
          /\ ~modifications[k].is_canon

\* C36: sync_cache ignores the commit_hash of the handle in enacted: the
\* cache is wiped exactly when another enacted hash or a retracted hash is not
\* in modifications, and when it is not wiped the entries listed by no other
\* enacted and no retracted block stay, but for what the handle propagates.
\* With no commit_hash every enacted hash is looked up: one that is missing
\* wipes the cache, the others lose their accounts and become canonical.
CommitHashIgnored ==
    [][IsSyncStep =>
          LET c == call'
              h == c.handle
              looked == Range(c.retracted) \cup
                        (IF h.commit_hash = None THEN Range(c.enacted)
                         ELSE Range(c.enacted) \ {h.commit_hash})
          IN  /\ c.clear <=> \E b \in looked : EntriesOf(modifications, b) = {}
              /\ ~c.clear =>
                    /\ \A a \in Address :
                          \/ accounts'[a] = accounts[a]
                          \/ \E b \in looked : \E i \in EntriesOf(modifications, b) :
                                a \in modifications[i].accounts
                          \/ /\ Committing(h) /\ c.is_best
                             /\ ItemsFor(h.local_cache, a) /= {}
                    /\ \A b \in looked : \A i \in EntriesOf(modifications, b) :
                          \A a \in modifications[i].accounts :
                             \/ accounts'[a] = Absent
                             \/ /\ Committing(h) /\ c.is_best
                                /\ ItemsFor(h.local_cache, a) /= {}
                    /\ h.commit_hash = None =>
                          \A b \in Range(c.enacted) :
                             \A i \in EntriesOf(modifications', b) :
                                modifications'[i].is_canon]_vars

\* A sync_cache whose enacted list holds the block the handle commits and a
\* block of modifications has not wiped the cache.
C36Witness ==
    /\ call.op = "sync_cache"
    /\ ~call.clear
    /\ Committing(call.handle)
    /\ Len(call.enacted) = 2
    /\ call.handle.commit_hash \in Range(call.enacted)
    /\ Len(modifications) = 2
    /\ \E a \in Address : accounts[a] /= Absent

\* The parent chain of a handle on block p is not resolved in mods: p, or the
\* parent reached from p over entries that are not canonical, is the hash of
\* no entry.
RECURSIVE Unresolved(_, _, _)
Unresolved(mods, p, steps) ==
    IF EntriesOf(mods, p) = {} THEN TRUE
    ELSE LET m == mods[CHOOSE i \in EntriesOf(mods, p) : TRUE]
         IN  /\ ~m.is_canon
             /\ steps > 0
             /\ Unresolved(mods, m.parent, steps - 1)

\* C37: get_cached_account and get_cached return None for every address on a
\* handle with no parent_hash, and on a handle whose parent_hash, or a parent
\* reached from it over entries that are not canonical, is the hash of no
\* block of modifications, modifications being empty included.
UnresolvedParentReadsNothing ==
    \A a \in Address :
        /\ get_cached_account(accounts, modifications, None, a) = Absent
        /\ get_cached(accounts, modifications, None, a) = Absent
        /\ \A p \in CallHashes \cup {0} :
              Unresolved(modifications, p, Len(modifications)) =>
                 /\ get_cached_account(accounts, modifications, p, a) = Absent
                 /\ get_cached(accounts, modifications, p, a) = Absent

\* accounts holds an account that a handle on one block of modifications
\* reads, while the parent of another block of modifications, which is not
\* canonical, is in modifications no more.
C37Witness ==
    \E a \in Address :
        /\ accounts[a] > NoAccount
        /\ \E p \in CallHashes :
              get_cached_account(accounts, modifications, p, a) > NoAccount
        /\ \E i \in 1..Len(modifications) :
              /\ ~modifications[i].is_canon
              /\ \A j \in 1..Len(modifications) : a \notin modifications[j].accounts
              /\ EntriesOf(modifications, modifications[i].parent) = {}
              /\ Unresolved(modifications, modifications[i].hash,
                            Len(modifications))

\* C38: whenever modifications is empty accounts is empty; an entry enters
\* accounts only in a sync_cache that leaves the BlockChanges of the block of
\* its handle in modifications, and a step that empties modifications empties
\* accounts.
NoAccountsWithoutModifications ==
    /\ [](modifications = <<>> => accounts = EmptyAccounts)
    /\ [][/\ (\E a \in Address : accounts'[a] /= Absent /\ accounts'[a] /= accounts[a])
             => /\ IsSyncStep
                /\ Committing(call'.handle)
                /\ EntriesOf(modifications, call'.handle.commit_hash) = {}
                /\ EntriesOf(modifications', call'.handle.commit_hash) /= {}
          /\ (modifications /= <<>> /\ modifications' = <<>>)
             => IsWipingSyncStep /\ accounts' = EmptyAccounts]_vars

\* A sync_cache on a handle that commits no block and holds items has wiped
\* the cache, after an earlier sync_cache: modifications and accounts are
\* both empty.
C38Witness ==
    /\ call.op = "sync_cache"
    /\ call.clear
    /\ call.is_best
    /\ ~Committing(call.handle)
    /\ call.handle.local_cache /= <<>>
    /\ pc >= 2
    /\ modifications = <<>>
    /\ accounts = EmptyAccounts

(***************************************************************************)
(* Further properties of the shared cache under the client (SpecDB).       *)
(***************************************************************************)
\* The step is a call of sync_cache by the client, which drops the handle.
IsClientSyncStep ==
    handle.live /\ ~handle'.live /\ call'.op = "sync_cache"
\* The hashes of modifications, front to back.
HashesOf(mods) == [i \in 1..Len(mods) |-> mods[i].hash]
\* A sequence without its element at p.
Without(seq, p) == SubSeq(seq, 1, p - 1) \o SubSeq(seq, p + 1, Len(seq))

\* C34: modifications is ordered by block number, non-increasing from front
\* to back, after every sync_cache; the sync_cache of a handle that commits
\* a block first drops the back entry when the deque holds
\* STATE_CACHE_BLOCKS entries and then puts the new BlockChanges before the
\* first entry with a strictly smaller number, after the entries of the same
\* number, or at the back when there is none.
ModificationsOrdered ==
    /\ [](\A i, j \in 1..Len(modifications) :
             i < j => modifications[i].number >= modifications[j].number)
    /\ [][(IsClientSyncStep /\ Committing(call'.handle)) =>
            LET h == call'.handle
                before == IF call'.clear THEN <<>> ELSE HashesOf(modifications)
                kept == IF Len(before) = STATE_CACHE_BLOCKS
                        THEN SubSeq(before, 1, Len(before) - 1) ELSE before
            IN  \E p \in 1..Len(modifications') :
                   /\ modifications'[p].hash = h.commit_hash
                   /\ modifications'[p].number = h.commit_number
                   /\ Without(HashesOf(modifications'), p) = kept
                   /\ \A i \in 1..(p - 1) :
                         modifications'[i].number >= h.commit_number
                   /\ \A i \in (p + 1)..Len(modifications') :
                         modifications'[i].number < h.commit_number]_vars

\* A sync_cache on a full deque has dropped the back entry and put the new
\* block behind an entry of its own number.
C34Witness ==
    /\ call.op = "sync_cache"
    /\ Len(modifications) = STATE_CACHE_BLOCKS
    /\ \E p \in 2..Len(modifications) :
          /\ modifications[p].hash = call.handle.commit_hash
          /\ modifications[p - 1].number = modifications[p].number
    /\ \A i \in 1..Len(modifications) : modifications[i].hash /= 1

(***************************************************************************)
(* The propagation of local_cache items (SpecItems): a caller that builds  *)
(* each block on the one committed before it, hands over any item for an   *)
(* address — a removed account or one with the balance of the block, read  *)
(* or written — and synchronises with or without is_best, retracting the   *)
(* block before or nothing.                                                 *)
(***************************************************************************)
MaxItemSyncs == 2

\* Backend::add_to_account_cache with any Option<Account>.
ItemsAdd(addr, data, modified) ==
    /\ handle.live
    /\ data \in {NoAccount, 10 + pc + 1}
    /\ \A i \in 1..Len(handle.local_cache) : handle.local_cache[i].address < addr
    /\ handle' = add_to_account_cache(handle, addr, data, modified)
    /\ UNCHANGED <<accounts, modifications, chain, best, pc, rnd, call>>
    /\ UNCHANGED nondb

NextItems ==
    \/ CallBoxedCloneCanon(pc)
    \/ \E addr \in Address, data \in CallAccounts, modified \in BOOLEAN :
          ItemsAdd(addr, data, modified)
    \/ CallJournal(pc + 1, pc + 1, TRUE)
    \/ \E retracted \in {<<>>, <<pc>>}, is_best \in BOOLEAN :
          pc < MaxItemSyncs /\ CallSync(<<>>, retracted, is_best)

SpecItems == InitCalls /\ [][NextItems]_vars

\* The addresses sync_cache removes from accounts before it propagates: those
\* listed by the entries of the enacted hashes it looks at and of the
\* retracted hashes.
PurgedBy(c, mods) ==
    UNION {mods[i].accounts :
             i \in {j \in 1..Len(mods) :
                      mods[j].hash \in EnactedSeen(c) \cup Range(c.retracted)}}
\* accounts as the drain loop of sync_cache finds it.
AccountsPurged(c, accs, mods) ==
    [a \in Address |->
        IF c.clear \/ a \in PurgedBy(c, mods) THEN Absent ELSE accs[a]]

\* C35: sync_cache on a handle that commits a block, for the item of
\* local_cache of each address: under is_best, when accounts holds
\* Some(existing) and the item Some(new), existing becomes new if the item is
\* modified and stays otherwise; in every other case (no entry, a cached
\* None, an incoming None) the entry becomes the value of the item; without
\* is_best the entry stays.  The BlockChanges of the block lists the addresses
\* of the modified items, with is_best or not.
PropagationPerItem ==
    [][(IsSyncStep /\ Committing(call'.handle)) =>
          LET c == call'
              items == c.handle.local_cache
              found == AccountsPurged(c, accounts, modifications)
          IN  /\ \A a \in Address :
                    IF ItemsFor(items, a) = {} \/ ~c.is_best
                    THEN accounts'[a] = found[a]
                    ELSE LET item == items[CHOOSE i \in ItemsFor(items, a) : TRUE]
                         IN  IF found[a] > NoAccount /\ item.account > NoAccount
                             THEN accounts'[a] = IF item.modified
                                                 THEN item.account ELSE found[a]
                             ELSE accounts'[a] = item.account
              /\ \E p \in 1..Len(modifications') :
                    /\ modifications'[p].hash = c.handle.commit_hash
                    /\ modifications'[p].accounts =
                          {items[i].address :
                              i \in {j \in 1..Len(items) : items[j].modified}}]_vars

\* A sync_cache under is_best has found Some(existing) for an item that holds
\* another account and is not modified, and has kept existing.
C35Witness ==
    /\ call.op = "sync_cache"
    /\ call.is_best
    /\ \E i \in 1..Len(call.handle.local_cache) :
          LET item == call.handle.local_cache[i] IN
          /\ ~item.modified
          /\ item.account > NoAccount
          /\ accounts[item.address] > NoAccount
          /\ accounts[item.address] /= item.account

(***************************************************************************)
(* Further properties of the thread of one extension (SpecExtensionFair).  *)
(***************************************************************************)
\* The callbacks the items of the network channel are handed to.
NetworkCallbacks == {"on_node_added", "on_node_removed", "on_timeout", "on_message"}

\* C39: when the thread finds the events channel disconnected it goes on with
\* its loop: the step leaves it at the select, no on_event is entered from
\* then on, an item that waits in the network channel is handed to its
\* callback unless quit is taken first, and quit, once sent, ends the thread.
EventDisconnectionKeepsTask ==
    /\ [][\A name \in OneName :
             (~event_closed[name] /\ event_closed'[name]) =>
                task[name] = "ready" /\ task'[name] = "ready"]_vars
    /\ [][\A name \in OneName :
             (event_closed[name] /\ cur'[name] /= cur[name]) =>
                cur'[name].fn /= "on_event"]_vars
    /\ [](\A name \in OneName : event_closed[name] => events[name] = <<>>)
    /\ \A name \in OneName :
          (event_closed[name] /\ task[name] /= "done" /\ rx[name] /= <<>>)
             ~> (cur[name].fn \in NetworkCallbacks \/ task[name] = "done")
    /\ \A name \in OneName :
          (event_closed[name] /\ quit[name] > 0) ~> (task[name] = "done")

\* The thread has found the events channel disconnected and is in on_message
\* since, quit not being sent.
C39Witness ==
    \E name \in OneName :
        /\ event_closed[name]
        /\ task[name] = "callback"
        /\ cur[name].fn = "on_message"
        /\ quit[name] = 0

\* Select::ready returns one of the operations that are ready, chosen at
\* random: the network channel, ready again and again, is chosen in the end,
\* as quit is.
FairSelect ==
    \A name \in OneName : SF_vars(TaskRecvNetwork(name))

SpecExtensionFairSelect == SpecExtensionFair /\ FairSelect

\* C40: the step in which the thread takes quit ends it and drops what waits
\* in its network and events channels; a thread that has ended enters no
\* callback; and while quit is not sent an item that waits in the network
\* channel of an initialized extension is handed to its callback.
QuitEndsCallbacks ==
    /\ [][\A name \in OneName :
             (quit[name] > 0 /\ quit'[name] = 0) =>
                /\ task[name] = "ready" /\ task'[name] = "done"
                /\ rx'[name] = <<>> /\ events'[name] = <<>>
                /\ cur'[name] = NoCallback
                /\ active'[name] = active[name]
                /\ undelivered'[name] = undelivered[name]]_vars
    /\ [][\A name \in OneName :
             task[name] = "done" =>
                /\ task'[name] = "done"
                /\ cur'[name] = NoCallback
                /\ active'[name] = active[name]
                /\ rx'[name] = <<>> /\ events'[name] = <<>>]_vars
    /\ \A name \in OneName :
          (initialized[name] = 1 /\ rx[name] /= <<>>)
             ~> (cur[name].fn \in NetworkCallbacks \/ quit[name] > 0
                 \/ task[name] = "done")

\* The thread has ended on quit while the registry is being dropped, with a
\* message accepted by on_message that no callback got.
C40Witness ==
    \E name \in OneName :
        /\ client = "dropping"
        /\ joining = name
        /\ task[name] = "done"
        /\ undelivered[name] > 0

====
